---- MODULE Spec2Model ----
(***************************************************************************)
(* Real-time voice client: the playback engine (useAudioPlayback hook) and *)
(* the connection manager (WebSocketService), as state machines.           *)
(*                                                                         *)
(* Every handler of the source is one action; the handler's body is an     *)
(* operator from a state record to a state record, so that a handler that  *)
(* calls another one (queueAudio -> playNextChunk -> playAudioChunk) is    *)
(* the composition of their operators.                                     *)
(***************************************************************************)
EXTENDS Integers, Sequences, FiniteSets, TLC

(***************************************************************************)
(* Bounds of the model.                                                    *)
(***************************************************************************)
\* binary frames that arrive at the playback engine
MaxFrames == 3
\* largest value of the integer level scale (the code's level 1.0)
LevelScale == 2

(***************************************************************************)
(* PLAYBACK ENGINE  (useAudioPlayback)                                     *)
(***************************************************************************)
VARIABLES
    isPlaying,          \* React state isPlaying (latest value set)
    audioLevel,         \* React state audioLevel, in 0..LevelScale
    audioQueueRef,      \* audioQueueRef.current: sequence of frames
    currentSourceRef,   \* currentSourceRef.current: a source id or NoSource
    smoothedLevelRef,   \* smoothedLevelRef.current
    animationFrameRef,  \* animationFrameRef.current # null
    analyserRef,        \* analyserRef.current # null
    gainNodeRef,        \* gainNodeRef.current # null
    audioContextRef,    \* audioContextRef.current # null
    isPlayingRef,       \* isPlayingRef.current (synchronised by an effect)
    sources,            \* the AudioBufferSourceNodes created so far
    calls,              \* option callbacks invoked by the last handler
    arrived,            \* number of frames handed to queueAudio so far
    lastOp,             \* the handler that ran last
    queueBefore         \* length of the queue when that handler began

pbVars == <<isPlaying, audioLevel, audioQueueRef, currentSourceRef,
            smoothedLevelRef, animationFrameRef, analyserRef, gainNodeRef,
            audioContextRef, isPlayingRef, sources, calls, arrived, lastOp,
            queueBefore>>

\* The connection manager's state (WebSocketService, below).
VARIABLES
    ws,                 \* this.ws: a transport id or NoTransport
    reconnectAttempts,  \* this.reconnectAttempts
    reconnectTimer,     \* this.reconnectTimer: a timer id or NoTimer
    pingInterval,       \* this.pingInterval # null
    isManualClose,      \* this.isManualClose
    transports,         \* readyState of every WebSocket created so far
    timers,             \* the timers set by attemptReconnect: pending or done
    intervals,          \* number of live keepalive setInterval timers
    emitted,            \* what the last handler notified, sent and scheduled
    messageCallbacks,   \* this.messageCallbacks: a set of listeners
    binaryCallbacks,    \* this.binaryCallbacks
    connectionCallbacks,\* this.connectionCallbacks
    errorCallbacks,     \* this.errorCallbacks
    userConnects,       \* explicit connect() calls so far
    disconnects,        \* explicit disconnect() calls so far
    opens,              \* open events so far
    closesSinceOpen,    \* closes handled as unexpected since the last open
    firedSinceOpen,     \* reconnect timers that fired since the last open
    wsLastOp,           \* the handler that ran last
    wsLastArg           \* the argument it was called with, if it has one

svcVars == <<ws, reconnectAttempts, reconnectTimer, pingInterval,
             isManualClose, transports, timers, intervals, emitted,
             messageCallbacks, binaryCallbacks, connectionCallbacks,
             errorCallbacks>>

ghostVars == <<userConnects, disconnects, opens, closesSinceOpen,
               firedSinceOpen, wsLastOp, wsLastArg>>

VARIABLES
    state,              \* App state `state` (latest value set)
    renderedState,      \* its value in the last render: what the UI shows
    lastMessage,        \* useWebSocket state lastMessage (latest value set)
    lastMessageChanged, \* lastMessage was set since the last render
    isStreamingRef,     \* isStreamingRef.current
    turnStart           \* frames that had arrived when the begin_stream of
                        \* the open turn arrived, NoTurn when no turn is open

appVars == <<state, renderedState, lastMessage, lastMessageChanged,
             isStreamingRef, turnStart>>

VARIABLES
    userSpeaking,           \* useVAD state userSpeaking (latest value set)
    renderedUserSpeaking,   \* its value in the last render
    hasInterruptedRef       \* hasInterruptedRef.current

ctlVars == <<userSpeaking, renderedUserSpeaking, hasInterruptedRef>>

VARIABLES
    isConnectedState,               \* useWebSocket state isConnected
    renderedIsConnected,            \* its value in the last render
    isConversationActive,           \* App state isConversationActive
    renderedIsConversationActive,   \* its value in the last render
    hasAutoStartedRef,              \* hasAutoStartedRef.current
    startsPending,                  \* startConversation calls that await
                                    \* startCapture
    startsSent                      \* start messages passed to the transport

startVars == <<isConnectedState, renderedIsConnected, isConversationActive,
               renderedIsConversationActive, hasAutoStartedRef,
               startsPending, startsSent>>

VARIABLES
    capture,            \* useAudioCapture: its state, its refs, the devices
                        \* and nodes that it acquired, what its handler
                        \* that ran last called
    mediaDevices,       \* navigator.mediaDevices.getUserMedia: "present"
                        \* or "absent", "unknown" until the first call of
                        \* startCapture tests it
    captureOp,          \* the handler of useAudioCapture that ran last
    captureEnabled      \* startCapture has completed and stopCapture has
                        \* not returned since

capVars == <<capture, mediaDevices, captureOp, captureEnabled>>

VARIABLES
    input,          \* a block of samples (Float32Array)
    inputRate,      \* the sample rate it was captured at
    outputRate,     \* the sample rate to send
    resampled,      \* resampleAudio(input, inputRate, outputRate)
    pcmData,        \* float32ToInt16(resampled)
    decoded,        \* int16ToFloat32(pcmData)
    codecStage      \* how far the block has been processed

codecVars == <<input, inputRate, outputRate, resampled, pcmData, decoded,
               codecStage>>

VARIABLES
    polls           \* the promises of the connect() calls that found an
                    \* attempt in flight, each with its polling timer:
                    \* "pending", "resolved" or "rejected"

pollVars == <<polls>>

VARIABLES
    page,           \* the globals of the page script app.js: isRecording,
                    \* isConversationActive, shouldProcessAudio, the state
                    \* of its socket, its audio graph, and what the last
                    \* handler sent
    pageOp,         \* the handler of the page that ran last
    pageStatus      \* the most recent status the server sent to the page

pageVars == <<page, pageOp, pageStatus>>

\* currentSourceRef.current = null
NoSource == 0

\* A frame is its arrival number and whether its byte length is odd
\* (new Int16Array(buffer) throws a RangeError on an odd byte length).
Frame(n, odd) == [id |-> n, odd |-> odd]

\* The hook's state, with the audio nodes and callback counts it acts on.
PB ==
    [isPlaying |-> isPlaying, audioLevel |-> audioLevel,
     audioQueueRef |-> audioQueueRef, currentSourceRef |-> currentSourceRef,
     smoothedLevelRef |-> smoothedLevelRef,
     animationFrameRef |-> animationFrameRef, analyserRef |-> analyserRef,
     gainNodeRef |-> gainNodeRef, audioContextRef |-> audioContextRef,
     isPlayingRef |-> isPlayingRef, sources |-> sources, calls |-> calls]

\* No option callback invoked yet.
NoCalls == [onPlaybackStart |-> 0, onPlaybackEnd |-> 0, onError |-> 0]

\* The state a handler starts from: it has invoked no callback yet.
Enter(s) == [s EXCEPT !.calls = NoCalls]

SetPB(n) ==
    /\ isPlaying' = n.isPlaying
    /\ audioLevel' = n.audioLevel
    /\ audioQueueRef' = n.audioQueueRef
    /\ currentSourceRef' = n.currentSourceRef
    /\ smoothedLevelRef' = n.smoothedLevelRef
    /\ animationFrameRef' = n.animationFrameRef
    /\ analyserRef' = n.analyserRef
    /\ gainNodeRef' = n.gainNodeRef
    /\ audioContextRef' = n.audioContextRef
    /\ isPlayingRef' = n.isPlayingRef
    /\ sources' = n.sources
    /\ calls' = n.calls

\* The sources that are producing output: started, neither ended nor stopped.
Rendering(srcs) == {i \in DOMAIN srcs : srcs[i].state = "playing"}

rendering == Rendering(sources)

\* The frames whose render was started, in the order the renders started.
started == [i \in DOMAIN sources |-> sources[i].frame]

\* calculateRMS yields a level in [0, 1]: here 0..LevelScale.
RmsLevels == 0..LevelScale

\* smoothAudioLevel: previous * 0.3 + current * 0.7, on the integer scale.
smoothAudioLevel(currentLevel, previousLevel) ==
    (previousLevel * 3 + currentLevel * 7) \div 10

\* initAudioContext: create the context when there is none.
initAudioContext(s) ==
    IF ~s.audioContextRef THEN [s EXCEPT !.audioContextRef = TRUE] ELSE s

\* stopVisualization: cancel the pending animation frame, if any.
stopVisualization(s) ==
    IF s.animationFrameRef THEN [s EXCEPT !.animationFrameRef = FALSE] ELSE s

UpdateLevelIsPlayingLive(s) == s.isPlaying

\* The isPlaying that updateLevel reads.  startVisualization is memoised
\* with an empty dependency list, so updateLevel closes over the isPlaying
\* of the first render, useState(false), whatever the state is now.
UpdateLevelIsPlaying(s) == FALSE

\* startVisualization: the first, synchronous call of updateLevel.
startVisualization(s, rms) ==
    IF ~s.analyserRef THEN s
    ELSE IF ~s.analyserRef \/ ~UpdateLevelIsPlaying(s) THEN s
    ELSE LET smoothed == smoothAudioLevel(rms, s.smoothedLevelRef)
         IN  [s EXCEPT !.smoothedLevelRef = smoothed,
                       !.audioLevel = smoothed,
                       !.animationFrameRef = TRUE]

\* playAudioChunk: the try block up to source.start() and the callbacks, or
\* the catch block when the conversion of the frame throws.
playAudioChunk(s, audioData, rms) ==
    LET s1 == initAudioContext(s) IN
    IF audioData.odd
    THEN [s1 EXCEPT !.calls.onError = @ + 1, !.isPlaying = FALSE]
    ELSE LET source == Len(s1.sources) + 1
             s2 == [s1 EXCEPT !.analyserRef = TRUE,
                              !.gainNodeRef = TRUE,
                              !.sources = Append(@, [frame |-> audioData.id,
                                                     state |-> "playing"]),
                              !.currentSourceRef = source,
                              !.isPlaying = TRUE]
             s3 == startVisualization(s2, rms)
         IN  IF ~s3.isPlayingRef
             THEN [s3 EXCEPT !.calls.onPlaybackStart = @ + 1]
             ELSE s3

\* The idle branch shared by playNextChunk and source.onended.
BecomeIdle(s) ==
    [s EXCEPT !.isPlaying = FALSE,
              !.audioLevel = 0,
              !.smoothedLevelRef = 0,
              !.calls.onPlaybackEnd = @ + 1]

playNextChunkNewestFirst(s, rms) ==
    IF Len(s.audioQueueRef) = 0
    THEN BecomeIdle(s)
    ELSE playAudioChunk(
             [s EXCEPT !.audioQueueRef = SubSeq(@, 1, Len(@) - 1)],
             s.audioQueueRef[Len(s.audioQueueRef)], rms)

\* playNextChunk
playNextChunk(s, rms) ==
    IF Len(s.audioQueueRef) = 0
    THEN BecomeIdle(s)
    ELSE playAudioChunk([s EXCEPT !.audioQueueRef = Tail(@)],
                        Head(s.audioQueueRef), rms)

\* queueAudio
queueAudio(s, audioData, rms) ==
    LET s1 == [s EXCEPT !.audioQueueRef = Append(@, audioData)]
    IN  IF ~s1.isPlayingRef THEN playNextChunk(s1, rms) ELSE s1

\* source.onended of the source `source` (the event marks it ended).
onended(s, source, rms) ==
    LET s1 == [s EXCEPT !.currentSourceRef = NoSource,
                        !.sources[source].state = "ended"]
        s2 == stopVisualization(s1)
    IN  IF Len(s2.audioQueueRef) > 0
        THEN playNextChunk(s2, rms)
        ELSE BecomeIdle(s2)

\* source.stop(): a playing source stops producing output and its ended
\* event is queued; on a source that is no longer playing it changes nothing
\* (whatever it throws is caught and ignored).
StopSource(srcs, source) ==
    IF srcs[source].state = "playing"
    THEN [srcs EXCEPT ![source].state = "stopped"]
    ELSE srcs

stopPlaybackKeepQueue(s) ==
    LET s1 == IF s.currentSourceRef # NoSource
              THEN [s EXCEPT !.sources = StopSource(@, s.currentSourceRef),
                             !.currentSourceRef = NoSource]
              ELSE s
        s2 == stopVisualization([s1 EXCEPT !.gainNodeRef = FALSE])
    IN  [s2 EXCEPT !.isPlaying = FALSE,
                   !.audioLevel = 0,
                   !.smoothedLevelRef = 0]

\* stopPlayback
stopPlayback(s) ==
    LET s1 == IF s.currentSourceRef # NoSource
              THEN [s EXCEPT !.sources = StopSource(@, s.currentSourceRef),
                             !.currentSourceRef = NoSource]
              ELSE s
        s2 == [s1 EXCEPT !.gainNodeRef = FALSE]
        s3 == [s2 EXCEPT !.audioQueueRef = <<>>]
        s4 == stopVisualization(s3)
    IN  [s4 EXCEPT !.isPlaying = FALSE,
                   !.audioLevel = 0,
                   !.smoothedLevelRef = 0]

clearQueueAndStop(s) == stopPlayback(s)

\* clearQueue
clearQueue(s) == [s EXCEPT !.audioQueueRef = <<>>]

\* The effect that copies isPlaying into isPlayingRef after a render.
syncIsPlayingRef(s) == [s EXCEPT !.isPlayingRef = s.isPlaying]

PBInit ==
    /\ isPlaying = FALSE
    /\ audioLevel = 0
    /\ audioQueueRef = <<>>
    /\ currentSourceRef = NoSource
    /\ smoothedLevelRef = 0
    /\ animationFrameRef = FALSE
    /\ analyserRef = FALSE
    /\ gainNodeRef = FALSE
    /\ audioContextRef = FALSE
    /\ isPlayingRef = FALSE
    /\ sources = <<>>
    /\ calls = NoCalls
    /\ arrived = 0
    /\ lastOp = "init"
    /\ queueBefore = 0

Ran(op) ==
    /\ lastOp' = op
    /\ queueBefore' = Len(audioQueueRef)

\* A binary frame arrives and is handed to queueAudio.
QueueAudio ==
    /\ arrived < MaxFrames
    /\ \E odd \in BOOLEAN, rms \in RmsLevels :
          SetPB(queueAudio(Enter(PB), Frame(arrived + 1, odd), rms))
    /\ arrived' = arrived + 1
    /\ Ran("queueAudio")
    /\ UNCHANGED <<svcVars, ghostVars, appVars, ctlVars, startVars, capVars, codecVars, pollVars, pageVars>>

\* A render reaches the end of its buffer: the source's ended event.
OnEnded ==
    /\ \E source \in rendering, rms \in RmsLevels :
          SetPB(onended(Enter(PB), source, rms))
    /\ arrived' = arrived
    /\ Ran("onended")
    /\ UNCHANGED <<svcVars, ghostVars, appVars, ctlVars, startVars, capVars, codecVars, pollVars, pageVars>>

\* The ended event of a source that stopPlayback stopped.
OnEndedStopped ==
    /\ \E source \in {i \in DOMAIN sources : sources[i].state = "stopped"},
          rms \in RmsLevels :
          SetPB(onended(Enter(PB), source, rms))
    /\ arrived' = arrived
    /\ Ran("onendedStopped")
    /\ UNCHANGED <<svcVars, ghostVars, appVars, ctlVars, startVars, capVars, codecVars, pollVars, pageVars>>

StopPlayback ==
    /\ SetPB(stopPlayback(Enter(PB)))
    /\ arrived' = arrived
    /\ Ran("stopPlayback")
    /\ UNCHANGED <<svcVars, ghostVars, appVars, ctlVars, startVars, capVars, codecVars, pollVars, pageVars>>

ClearQueue ==
    /\ SetPB(clearQueue(Enter(PB)))
    /\ arrived' = arrived
    /\ Ran("clearQueue")
    /\ UNCHANGED <<svcVars, ghostVars, appVars, ctlVars, startVars, capVars, codecVars, pollVars, pageVars>>

\* React re-renders and runs the effect that depends on isPlaying.
SyncIsPlayingRef ==
    /\ isPlayingRef # isPlaying
    /\ SetPB(syncIsPlayingRef(Enter(PB)))
    /\ arrived' = arrived
    /\ Ran("syncIsPlayingRef")
    /\ UNCHANGED <<svcVars, ghostVars, appVars, ctlVars, startVars, capVars, codecVars, pollVars, pageVars>>

PBNext ==
    \/ QueueAudio
    \/ OnEnded
    \/ OnEndedStopped
    \/ StopPlayback
    \/ ClearQueue
    \/ SyncIsPlayingRef

(***************************************************************************)
(* CONNECTION MANAGER  (WebSocketService)                                  *)
(***************************************************************************)
\* explicit connect() calls by the application (the first one included)
MaxUserConnects == 2
\* explicit disconnect() calls by the application
MaxDisconnects == 1
\* connection attempts that the backend accepts
MaxOpens == 1

\* this.ws = null
NoTransport == 0

\* this.reconnectTimer = null
NoTimer == 0

\* The last handler takes no argument.
NoArg == <<>>

maxReconnectAttempts == 5

reconnectTimeouts == <<1000, 2000, 4000, 8000, 30000>>

\* the `|| 30000` of attemptReconnect
DefaultReconnectTimeout == 30000

\* No listener has been called.
NoneDelivered ==
    [message |-> <<>>, binary |-> <<>>, connection |-> <<>>, error |-> <<>>]

\* Nothing notified, no timer set, nothing sent, no listener called.
NoneEmitted ==
    [errors |-> <<>>, connection |-> <<>>, timeouts |-> <<>>,
     sent |-> <<>>, delivered |-> NoneDelivered]

\* The service's fields, with the transports and timers they refer to.
SVC ==
    [ws |-> ws, reconnectAttempts |-> reconnectAttempts,
     reconnectTimer |-> reconnectTimer, pingInterval |-> pingInterval,
     isManualClose |-> isManualClose, transports |-> transports,
     timers |-> timers, intervals |-> intervals, emitted |-> emitted,
     messageCallbacks |-> messageCallbacks,
     binaryCallbacks |-> binaryCallbacks,
     connectionCallbacks |-> connectionCallbacks,
     errorCallbacks |-> errorCallbacks]

\* The state a handler starts from: it has emitted nothing yet.
EnterSVC(s) == [s EXCEPT !.emitted = NoneEmitted]

SetSVC(n) ==
    /\ ws' = n.ws
    /\ reconnectAttempts' = n.reconnectAttempts
    /\ reconnectTimer' = n.reconnectTimer
    /\ pingInterval' = n.pingInterval
    /\ isManualClose' = n.isManualClose
    /\ transports' = n.transports
    /\ timers' = n.timers
    /\ intervals' = n.intervals
    /\ emitted' = n.emitted
    /\ messageCallbacks' = n.messageCallbacks
    /\ binaryCallbacks' = n.binaryCallbacks
    /\ connectionCallbacks' = n.connectionCallbacks
    /\ errorCallbacks' = n.errorCallbacks

\* this.ws?.readyState ("none" when this.ws is null)
ReadyState(s) ==
    IF s.ws = NoTransport THEN "none" ELSE s.transports[s.ws]

\* The transports in the connecting or open phase.
Live(ts) == {t \in DOMAIN ts : ts[t] \in {"CONNECTING", "OPEN"}}

PendingTimers(tm) == {k \in DOMAIN tm : tm[k] = "pending"}

\* callbacks.forEach((callback) => callback(event)): one call for each
\* member of the Set (the order among the members is not recorded: they are
\* taken by ascending listener number).
RECURSIVE forEach(_, _)
forEach(callbacks, event) ==
    IF callbacks = {} THEN <<>>
    ELSE LET callback == CHOOSE c \in callbacks : \A d \in callbacks : c <= d
         IN  <<[to |-> callback, event |-> event]>>
                 \o forEach(callbacks \ {callback}, event)

notifyMessageToBinaryListeners(s, message) ==
    [s EXCEPT !.emitted.delivered.message =
                  @ \o forEach(s.binaryCallbacks, message)]

\* notifyMessage
notifyMessage(s, message) ==
    [s EXCEPT !.emitted.delivered.message =
                  @ \o forEach(s.messageCallbacks, message)]

\* notifyBinary
notifyBinary(s, data) ==
    [s EXCEPT !.emitted.delivered.binary =
                  @ \o forEach(s.binaryCallbacks, data)]

\* notifyError
notifyError(s, error) ==
    [s EXCEPT !.emitted.errors = Append(@, error),
              !.emitted.delivered.error =
                  @ \o forEach(s.errorCallbacks, error)]

\* notifyConnection
notifyConnection(s, connected) ==
    [s EXCEPT !.emitted.connection = Append(@, connected),
              !.emitted.delivered.connection =
                  @ \o forEach(s.connectionCallbacks, connected)]

\* onMessage, onBinaryAudio, onConnectionChange, onError: Set.add
onMessage(s, callback) == [s EXCEPT !.messageCallbacks = @ \cup {callback}]

onBinaryAudio(s, callback) == [s EXCEPT !.binaryCallbacks = @ \cup {callback}]

onConnectionChange(s, callback) ==
    [s EXCEPT !.connectionCallbacks = @ \cup {callback}]

onError(s, callback) == [s EXCEPT !.errorCallbacks = @ \cup {callback}]

\* The unsubscribe functions that they return: Set.delete
unsubscribeMessage(s, callback) ==
    [s EXCEPT !.messageCallbacks = @ \ {callback}]

unsubscribeBinaryAudio(s, callback) ==
    [s EXCEPT !.binaryCallbacks = @ \ {callback}]

unsubscribeConnectionChange(s, callback) ==
    [s EXCEPT !.connectionCallbacks = @ \ {callback}]

unsubscribeError(s, callback) ==
    [s EXCEPT !.errorCallbacks = @ \ {callback}]

\* isConnected
isConnected(s) == ReadyState(s) = "OPEN"

\* JSON.stringify of a message that has only its type.
JSONstringify(message) == "{\"type\":\"" \o message.type \o "\"}"

\* The message types that the texts of the model carry.
MessageTypes == {"start", "interrupt", "ping", "pong"}

JSONparseAnything(text) == [ok |-> TRUE, value |-> [type |-> text]]

\* JSON.parse: the message of a well-formed text, a SyntaxError otherwise.
JSONparse(text) ==
    IF \E type \in MessageTypes : JSONstringify([type |-> type]) = text
    THEN [ok |-> TRUE,
          value |-> [type |-> CHOOSE type \in MessageTypes :
                                 JSONstringify([type |-> type]) = text]]
    ELSE [ok |-> FALSE, value |-> [type |-> "SyntaxError"]]

\* A text frame and a binary frame, as WebSocket data.
TextFrame(text) == [string |-> TRUE, text |-> text, byteLength |-> 0]

BinaryFrame(byteLength) ==
    [string |-> FALSE, text |-> "", byteLength |-> byteLength]

\* this.ws.send(data): the frame goes out on the transport of the service.
Send(s, data) ==
    [s EXCEPT !.emitted.sent = Append(@, [on |-> s.ws, data |-> data])]

sendMessageUnguarded(s, message) ==
    Send(s, TextFrame(JSONstringify(message)))

\* sendMessage: a warning and nothing else when there is no open transport.
\* (send() does not throw on an open transport, so the catch is not taken.)
sendMessage(s, message) ==
    IF s.ws = NoTransport \/ s.transports[s.ws] # "OPEN"
    THEN s
    ELSE Send(s, TextFrame(JSONstringify(message)))

\* sendAudioChunk: the bytes of the Int16Array, two for each sample.
sendAudioChunk(s, audioData) ==
    IF s.ws = NoTransport \/ s.transports[s.ws] # "OPEN"
    THEN s
    ELSE Send(s, BinaryFrame(2 * audioData.length))

\* The callback of the keepalive setInterval.
pingIntervalCallback(s) ==
    IF isConnected(s) THEN sendMessage(s, [type |-> "ping"]) ELSE s

\* ws.onmessage
onmessage(s, data) ==
    IF data.string
    THEN LET parsed == JSONparse(data.text)
         IN  IF parsed.ok
             THEN notifyMessage(s, parsed.value)
             ELSE notifyError(s, "Failed to parse server message")
    ELSE notifyBinary(s, data)

\* stopPingInterval
stopPingInterval(s) ==
    IF s.pingInterval
    THEN [s EXCEPT !.pingInterval = FALSE, !.intervals = @ - 1]
    ELSE s

\* startPingInterval
startPingInterval(s) ==
    LET s1 == stopPingInterval(s)
    IN  [s1 EXCEPT !.pingInterval = TRUE, !.intervals = @ + 1]

connectNoInFlightCheck(s) ==
    IF ReadyState(s) = "OPEN" THEN s
    ELSE [s EXCEPT !.isManualClose = FALSE,
                   !.transports = Append(@, "CONNECTING"),
                   !.ws = Len(s.transports) + 1]

\* connect(url): nothing new while this.ws is open or connecting, otherwise
\* a new WebSocket whose handlers are the Transport* actions below.
connect(s) ==
    IF ReadyState(s) = "OPEN" THEN s
    ELSE IF ReadyState(s) = "CONNECTING" THEN s
    ELSE [s EXCEPT !.isManualClose = FALSE,
                   !.transports = Append(@, "CONNECTING"),
                   !.ws = Len(s.transports) + 1]

\* ws.onopen
onopen(s) ==
    startPingInterval(
        notifyConnection([s EXCEPT !.reconnectAttempts = 0], TRUE))

\* ws.onerror
onerror(s) == notifyError(s, "WebSocket connection error")

\* reconnectTimeouts[this.reconnectAttempts] || 30000
ReconnectTimeout(attempts) ==
    IF attempts + 1 \in DOMAIN reconnectTimeouts
    THEN reconnectTimeouts[attempts + 1]
    ELSE DefaultReconnectTimeout

\* window.setTimeout(callback, timeout) of attemptReconnect.
SetReconnectTimer(s, timeout) ==
    [s EXCEPT !.timers = Append(@, "pending"),
              !.reconnectTimer = Len(s.timers) + 1,
              !.emitted.timeouts = Append(@, timeout)]

attemptReconnectOffByOne(s) ==
    IF s.reconnectAttempts > maxReconnectAttempts
    THEN notifyError(s, "Failed to reconnect after multiple attempts")
    ELSE SetReconnectTimer(s, ReconnectTimeout(s.reconnectAttempts))

\* attemptReconnect: give up with an error, or set a timer.
attemptReconnect(s) ==
    IF s.reconnectAttempts >= maxReconnectAttempts
    THEN notifyError(s, "Failed to reconnect after multiple attempts")
    ELSE SetReconnectTimer(s, ReconnectTimeout(s.reconnectAttempts))

reconnectTimerCallbackCountsOnly(s) ==
    [s EXCEPT !.reconnectAttempts = @ + 1]

\* The callback of the timer that attemptReconnect sets.
reconnectTimerCallback(s) ==
    connect([s EXCEPT !.reconnectAttempts = @ + 1])

\* ws.onclose
onclose(s) ==
    LET s1 == notifyConnection(stopPingInterval(s), FALSE)
    IN  IF ~s1.isManualClose THEN attemptReconnect(s1) ELSE s1

\* ws.close(): a connecting or open transport starts closing.
CloseTransport(ts, t) ==
    IF ts[t] \in {"CONNECTING", "OPEN"} THEN [ts EXCEPT ![t] = "CLOSING"] ELSE ts

\* clearTimeout: a pending timer is cancelled, any other is left as it is.
ClearTimeout(tm, k) ==
    IF tm[k] = "pending" THEN [tm EXCEPT ![k] = "done"] ELSE tm

disconnectToggling(s) ==
    LET s1 == stopPingInterval([s EXCEPT !.isManualClose = ~@])
    IN  IF s1.ws # NoTransport
        THEN [s1 EXCEPT !.transports = CloseTransport(@, s1.ws),
                        !.ws = NoTransport]
        ELSE s1

\* disconnect
disconnect(s) ==
    LET s1 == stopPingInterval([s EXCEPT !.isManualClose = TRUE])
        s2 == IF s1.reconnectTimer # NoTimer
              THEN [s1 EXCEPT !.timers = ClearTimeout(@, s1.reconnectTimer),
                              !.reconnectTimer = NoTimer]
              ELSE s1
    IN  IF s2.ws # NoTransport
        THEN [s2 EXCEPT !.transports = CloseTransport(@, s2.ws),
                        !.ws = NoTransport]
        ELSE s2

\* The handler that ran and its argument.
RanSVC(op, arg) ==
    /\ wsLastOp' = op
    /\ wsLastArg' = arg

SVCInit ==
    /\ ws = NoTransport
    /\ reconnectAttempts = 0
    /\ reconnectTimer = NoTimer
    /\ pingInterval = FALSE
    /\ isManualClose = FALSE
    /\ transports = <<>>
    /\ timers = <<>>
    /\ intervals = 0
    /\ emitted = NoneEmitted
    /\ messageCallbacks = {}
    /\ binaryCallbacks = {}
    /\ connectionCallbacks = {}
    /\ errorCallbacks = {}
    /\ userConnects = 0
    /\ disconnects = 0
    /\ opens = 0
    /\ closesSinceOpen = 0
    /\ firedSinceOpen = 0
    /\ wsLastOp = "init"
    /\ wsLastArg = NoArg

\* The promise that connect() returns when an attempt is in flight: it
\* is settled by a timer that polls the ready state every 100 ms.
connectPromise(ps, readyState) ==
    IF readyState = "CONNECTING" THEN Append(ps, "pending") ELSE ps

\* The callback of that timer, for a promise that is still pending (the
\* timer of a settled promise has been cleared).
checkInterval(p, readyState) ==
    IF p # "pending" THEN p
    ELSE IF readyState = "OPEN" THEN "resolved"
    ELSE IF readyState = "CLOSED" THEN "rejected"
    ELSE p

\* The application calls connect().
UserConnect ==
    /\ userConnects < MaxUserConnects
    /\ SetSVC(connect(EnterSVC(SVC)))
    /\ polls' = connectPromise(polls, ReadyState(SVC))
    /\ userConnects' = userConnects + 1
    /\ RanSVC("connect", NoArg)
    /\ UNCHANGED <<disconnects, opens, closesSinceOpen, firedSinceOpen>>
    /\ UNCHANGED <<pbVars, appVars, ctlVars, startVars, capVars, codecVars,
                 pageVars>>

\* The application calls disconnect().
UserDisconnect ==
    /\ disconnects < MaxDisconnects
    /\ SetSVC(disconnect(EnterSVC(SVC)))
    /\ disconnects' = disconnects + 1
    /\ RanSVC("disconnect", NoArg)
    /\ UNCHANGED <<userConnects, opens, closesSinceOpen, firedSinceOpen>>
    /\ UNCHANGED <<pbVars, appVars, ctlVars, startVars, capVars, codecVars, pollVars, pageVars>>

\* The open event of a connecting transport.
TransportOpen ==
    /\ opens < MaxOpens
    /\ \E t \in DOMAIN transports :
          /\ transports[t] = "CONNECTING"
          /\ SetSVC(onopen([EnterSVC(SVC) EXCEPT !.transports[t] = "OPEN"]))
    /\ opens' = opens + 1
    /\ closesSinceOpen' = 0
    /\ firedSinceOpen' = 0
    /\ RanSVC("open", NoArg)
    /\ UNCHANGED <<userConnects, disconnects>>
    /\ UNCHANGED <<pbVars, appVars, ctlVars, startVars, capVars, codecVars, pollVars, pageVars>>

\* What a close event adds to the history: one more unexpected close when
\* the handler took it for one.
CloseHistory ==
    /\ closesSinceOpen' =
          IF ~isManualClose THEN closesSinceOpen + 1 ELSE closesSinceOpen
    /\ RanSVC("close", NoArg)
    /\ UNCHANGED <<userConnects, disconnects, opens, firedSinceOpen>>

\* The close event of a transport that closed without an error: the server
\* closed an open transport, or a close() of the client completed.
TransportClose ==
    /\ \E t \in DOMAIN transports :
          /\ transports[t] \in {"OPEN", "CLOSING"}
          /\ SetSVC(onclose([EnterSVC(SVC) EXCEPT !.transports[t] = "CLOSED"]))
    /\ CloseHistory
    /\ UNCHANGED <<pbVars, appVars, ctlVars, startVars, capVars, codecVars, pollVars, pageVars>>

\* A transport fails: its error event, then its close event.
TransportError ==
    /\ \E t \in DOMAIN transports :
          /\ transports[t] \in {"CONNECTING", "OPEN", "CLOSING"}
          /\ SetSVC(onclose(onerror(
                 [EnterSVC(SVC) EXCEPT !.transports[t] = "CLOSED"])))
    /\ CloseHistory
    /\ UNCHANGED <<pbVars, appVars, ctlVars, startVars, capVars, codecVars, pollVars, pageVars>>

\* A reconnect timer fires.
ReconnectTimerFires ==
    /\ \E k \in PendingTimers(timers) :
          SetSVC(reconnectTimerCallback(
                 [EnterSVC(SVC) EXCEPT !.timers[k] = "done"]))
    /\ firedSinceOpen' = firedSinceOpen + 1
    /\ RanSVC("timer", NoArg)
    /\ UNCHANGED <<userConnects, disconnects, opens, closesSinceOpen>>
    /\ UNCHANGED <<pbVars, appVars, ctlVars, startVars, capVars, codecVars, pollVars, pageVars>>

\* A polling timer of connect() ticks.
CheckInterval ==
    /\ \E p \in DOMAIN polls :
          /\ polls[p] = "pending"
          /\ polls' = [polls EXCEPT
                          ![p] = checkInterval(@, ReadyState(SVC))]
    /\ SetSVC(EnterSVC(SVC))
    /\ RanSVC("checkInterval", NoArg)
    /\ UNCHANGED <<userConnects, disconnects, opens, closesSinceOpen,
                   firedSinceOpen>>
    /\ UNCHANGED <<pbVars, appVars, ctlVars, startVars, capVars, codecVars,
                 pageVars>>

\* The service with the connect() calls that wait for an attempt in
\* flight.
SVCNextPolling ==
    \/ UserConnect
    \/ UserDisconnect
    \/ TransportOpen
    \/ TransportClose
    \/ TransportError
    \/ ReconnectTimerFires
    \/ CheckInterval

SVCNext ==
    \/ UserConnect
    \/ UserDisconnect
    \/ TransportOpen
    \/ TransportClose
    \/ TransportError
    \/ ReconnectTimerFires

\* The backend is unreachable: no connection attempt is ever accepted.
SVCNextUnreachable ==
    \/ UserConnect
    \/ UserDisconnect
    \/ TransportClose
    \/ TransportError
    \/ ReconnectTimerFires

\* listeners (callbacks) that the application may register
MaxListeners == 1
\* samples in an outgoing audio chunk
MaxSamples == 1

Listeners == 1..MaxListeners

EventKinds == {"message", "binary", "connection", "error"}

\* The control messages that the application sends.
ClientMessages == {[type |-> "start"], [type |-> "interrupt"]}

\* The Int16Arrays that the capture hands over.
AudioChunks == {[length |-> n] : n \in 1..MaxSamples}

\* The frames that arrive: a well-formed control message, a text that is cut
\* off, and binary audio.
InboundFrames ==
    {TextFrame(JSONstringify([type |-> "pong"])),
     TextFrame("{\"type\":"),
     BinaryFrame(2)}

\* The listener Set of a kind.
Callbacks(s, kind) ==
    CASE kind = "message" -> s.messageCallbacks
      [] kind = "binary" -> s.binaryCallbacks
      [] kind = "connection" -> s.connectionCallbacks
      [] kind = "error" -> s.errorCallbacks

\* The registration method of a kind.
subscribe(s, kind, callback) ==
    CASE kind = "message" -> onMessage(s, callback)
      [] kind = "binary" -> onBinaryAudio(s, callback)
      [] kind = "connection" -> onConnectionChange(s, callback)
      [] kind = "error" -> onError(s, callback)

\* The unsubscribe function that the registration method of a kind returned.
unsubscribe(s, kind, callback) ==
    CASE kind = "message" -> unsubscribeMessage(s, callback)
      [] kind = "binary" -> unsubscribeBinaryAudio(s, callback)
      [] kind = "connection" -> unsubscribeConnectionChange(s, callback)
      [] kind = "error" -> unsubscribeError(s, callback)

\* The history counters are left as they are.
SameHistory ==
    UNCHANGED <<userConnects, disconnects, opens, closesSinceOpen,
                firedSinceOpen>>

\* The application calls sendMessage(message).
SendMessage ==
    /\ \E message \in ClientMessages :
          /\ SetSVC(sendMessage(EnterSVC(SVC), message))
          /\ RanSVC("sendMessage", message)
    /\ SameHistory
    /\ UNCHANGED <<pbVars, appVars, ctlVars, startVars, capVars, codecVars, pollVars, pageVars>>

\* The application calls sendAudioChunk(audioData).
SendAudioChunk ==
    /\ \E audioData \in AudioChunks :
          /\ SetSVC(sendAudioChunk(EnterSVC(SVC), audioData))
          /\ RanSVC("sendAudioChunk", audioData)
    /\ SameHistory
    /\ UNCHANGED <<pbVars, appVars, ctlVars, startVars, capVars, codecVars, pollVars, pageVars>>

\* A keepalive interval that has not been cleared ticks.
PingTick ==
    /\ intervals > 0
    /\ SetSVC(pingIntervalCallback(EnterSVC(SVC)))
    /\ RanSVC("ping", NoArg)
    /\ SameHistory
    /\ UNCHANGED <<pbVars, appVars, ctlVars, startVars, capVars, codecVars, pollVars, pageVars>>

\* The message event of an open transport.
TransportMessage ==
    /\ \E t \in DOMAIN transports, data \in InboundFrames :
          /\ transports[t] = "OPEN"
          /\ SetSVC(onmessage(EnterSVC(SVC), data))
          /\ RanSVC("message", data)
    /\ SameHistory
    /\ UNCHANGED <<pbVars, appVars, ctlVars, startVars, capVars, codecVars, pollVars, pageVars>>

\* The application registers a listener.
Subscribe ==
    /\ \E kind \in EventKinds, callback \in Listeners :
          /\ SetSVC(subscribe(EnterSVC(SVC), kind, callback))
          /\ RanSVC("subscribe", [kind |-> kind, callback |-> callback])
    /\ SameHistory
    /\ UNCHANGED <<pbVars, appVars, ctlVars, startVars, capVars, codecVars, pollVars, pageVars>>

\* The application calls an unsubscribe function (a call that finds its
\* callback absent from the Set changes nothing and is left out).
Unsubscribe ==
    /\ \E kind \in EventKinds, callback \in Listeners :
          /\ callback \in Callbacks(SVC, kind)
          /\ SetSVC(unsubscribe(EnterSVC(SVC), kind, callback))
          /\ RanSVC("unsubscribe", [kind |-> kind, callback |-> callback])
    /\ SameHistory
    /\ UNCHANGED <<pbVars, appVars, ctlVars, startVars, capVars, codecVars, pollVars, pageVars>>

\* The connection manager with the traffic that the application sends and
\* the keepalive: no listener is registered, and a transport closes without
\* an error event.
SVCNextSending ==
    \/ UserConnect
    \/ UserDisconnect
    \/ TransportOpen
    \/ TransportClose
    \/ ReconnectTimerFires
    \/ SendMessage
    \/ SendAudioChunk
    \/ PingTick

\* The events of the transports with listeners that come and go.
SVCNextListeners ==
    \/ UserConnect
    \/ TransportOpen
    \/ TransportMessage
    \/ TransportClose
    \/ TransportError
    \/ Subscribe
    \/ Unsubscribe

(***************************************************************************)
(* CONVERSATION CONTROLLER  (App)                                          *)
(***************************************************************************)

\* AppState: the states that the backend reports.
AppStates ==
    {"warming", "ready", "listening", "thinking", "speaking", "loading_tts"}

\* mapBackendStateToCharacterState
mapBackendStateToCharacterState(backendState) ==
    CASE backendState = "warming" -> "warming"
      [] backendState = "ready" -> "ready"
      [] backendState = "listening" -> "listening"
      [] backendState = "thinking" -> "ready"
      [] backendState = "speaking" -> "speaking"
      [] backendState = "loading_tts" -> "warming"

\* A server message, with the fields that the message effect reads.
Message(type, data, stream_status) ==
    [type |-> type, data |-> data, stream_status |-> stream_status]

\* lastMessage = null
NoMessage == Message("null", "", "")

\* The control messages that the server sends: the status messages, the
\* audio_config messages, audio_stopped, and pong for the types that the
\* message effect only logs.
StatusMessages ==
    {Message("status", backendState, "") : backendState \in AppStates}

AudioConfigMessages ==
    {Message("audio_config", "", stream_status) :
        stream_status \in {"begin_stream", "stop_stream"}}

AudioStoppedMessage == Message("audio_stopped", "", "")

PongMessage == Message("pong", "", "")

\* No turn is open.
NoTurn == -1

\* The controller with the playback hook that it uses.
APP ==
    [pb |-> PB, state |-> state, renderedState |-> renderedState,
     lastMessage |-> lastMessage, lastMessageChanged |-> lastMessageChanged,
     isStreamingRef |-> isStreamingRef]

SetAPP(n) ==
    /\ SetPB(n.pb)
    /\ state' = n.state
    /\ renderedState' = n.renderedState
    /\ lastMessage' = n.lastMessage
    /\ lastMessageChanged' = n.lastMessageChanged
    /\ isStreamingRef' = n.isStreamingRef

\* The state a handler of the controller starts from.
EnterAPP(a) == [a EXCEPT !.pb = Enter(@)]

\* The message listener of useWebSocket: setLastMessage(message).
setLastMessage(a, message) ==
    [a EXCEPT !.lastMessage = message, !.lastMessageChanged = TRUE]

\* handleBinaryAudio
handleBinaryAudio(a, audioData, rms) ==
    IF a.isStreamingRef
    THEN [a EXCEPT !.pb = queueAudio(@, audioData, rms)]
    ELSE a

\* The effect on [lastMessage, ...]: the switch on lastMessage.type.
messageEffect(a, message) ==
    CASE message.type = "status" ->
            [a EXCEPT !.state = mapBackendStateToCharacterState(message.data)]
      [] message.type = "audio_config"
            /\ message.stream_status = "begin_stream" ->
            [a EXCEPT !.isStreamingRef = TRUE, !.pb = clearQueue(@)]
      [] message.type = "audio_config"
            /\ message.stream_status = "stop_stream" ->
            [a EXCEPT !.isStreamingRef = FALSE]
      [] message.type = "audio_stopped" ->
            [a EXCEPT !.pb = clearQueue(stopPlayback(@)),
                      !.isStreamingRef = FALSE]
      [] OTHER -> a

speakingOverrideEffectNoReset(a, isPlayingNow, stateNow) ==
    IF isPlayingNow THEN [a EXCEPT !.state = "speaking"] ELSE a

\* The effect on [isPlaying, state], with the values of the render.
speakingOverrideEffect(a, isPlayingNow, stateNow) ==
    IF isPlayingNow THEN [a EXCEPT !.state = "speaking"]
    ELSE IF stateNow = "speaking" /\ ~isPlayingNow
    THEN [a EXCEPT !.state = "ready"]
    ELSE a

\* A render with the latest values and, after it, the effects whose
\* dependencies changed since the render before, in the order of the
\* source: the isPlayingRef effect of the playback hook, the message
\* effect, the speaking override.
commit(a) ==
    LET isPlayingNow == a.pb.isPlaying
        stateNow == a.state
        a1 == [a EXCEPT !.pb = syncIsPlayingRef(@),
                        !.renderedState = stateNow,
                        !.lastMessageChanged = FALSE]
        a2 == IF a.lastMessageChanged
              THEN messageEffect(a1, a.lastMessage)
              ELSE a1
    IN  IF isPlayingNow # a.pb.isPlayingRef \/ stateNow # a.renderedState
        THEN speakingOverrideEffect(a2, isPlayingNow, stateNow)
        ELSE a2

\* Some state was set since the last render.
RenderPending ==
    \/ isPlaying # isPlayingRef
    \/ state # renderedState
    \/ lastMessageChanged

APPInit ==
    /\ state = "warming"
    /\ renderedState = "warming"
    /\ lastMessage = NoMessage
    /\ lastMessageChanged = FALSE
    /\ isStreamingRef = FALSE
    /\ turnStart = NoTurn

\* A control message arrives: the message listener stores it.
Receive(message) ==
    /\ SetAPP(setLastMessage(EnterAPP(APP), message))
    /\ arrived' = arrived
    /\ Ran("serverMessage")
    /\ UNCHANGED <<svcVars, ghostVars, ctlVars, startVars, capVars, codecVars, pollVars, pageVars>>

\* A status message arrives.
ServerStatus ==
    /\ \E message \in StatusMessages : Receive(message)
    /\ turnStart' = turnStart

\* An audio_config message arrives: begin_stream opens a turn, stop_stream
\* closes it.
ServerAudioConfig ==
    \E message \in AudioConfigMessages :
        /\ Receive(message)
        /\ turnStart' =
              IF message.stream_status = "begin_stream"
              THEN arrived ELSE NoTurn

\* An audio_stopped message arrives and closes the turn.
ServerAudioStopped ==
    /\ Receive(AudioStoppedMessage)
    /\ turnStart' = NoTurn

\* A message arrives that the message effect only logs.
ServerPong ==
    /\ Receive(PongMessage)
    /\ turnStart' = turnStart

\* A binary frame of well-formed PCM16 arrives: the binary listener calls
\* handleBinaryAudio.
BinaryAudio ==
    /\ arrived < MaxFrames
    /\ \E odd \in {FALSE}, rms \in RmsLevels :
          SetAPP(handleBinaryAudio(EnterAPP(APP),
                                   Frame(arrived + 1, odd), rms))
    /\ arrived' = arrived + 1
    /\ Ran("binaryAudio")
    /\ turnStart' = turnStart
    /\ UNCHANGED <<svcVars, ghostVars, ctlVars, startVars, capVars, codecVars, pollVars, pageVars>>

\* The render in progress processes a status message.
ProcessesStatus == lastMessageChanged /\ lastMessage.type = "status"

\* React renders and runs the effects.
Commit ==
    /\ RenderPending
    /\ SetAPP(commit(EnterAPP(APP)))
    /\ arrived' = arrived
    /\ Ran("commit")
    /\ turnStart' = turnStart
    /\ UNCHANGED <<svcVars, ghostVars, ctlVars, startVars, capVars, codecVars, pollVars, pageVars>>

\* The controller while the server reports its status and streams audio
\* without stopping it (no source is stopped, so that every ended event is
\* the end of a buffer).
APPNext ==
    \/ ServerStatus
    \/ ServerAudioConfig
    \/ BinaryAudio
    \/ OnEnded
    \/ Commit

(***************************************************************************)
(* INTERRUPTION  (the App of frontend-2, with useVAD)                      *)
(***************************************************************************)

\* The controller with the hooks that it uses: playback, the service
\* behind useWebSocket, and useVAD.
CTL ==
    [app |-> APP, svc |-> SVC, userSpeaking |-> userSpeaking,
     renderedUserSpeaking |-> renderedUserSpeaking,
     hasInterruptedRef |-> hasInterruptedRef]

SetCTL(n) ==
    /\ SetAPP(n.app)
    /\ SetSVC(n.svc)
    /\ userSpeaking' = n.userSpeaking
    /\ renderedUserSpeaking' = n.renderedUserSpeaking
    /\ hasInterruptedRef' = n.hasInterruptedRef

\* The state a handler of the controller starts from.
EnterCTL(c) == [c EXCEPT !.app = EnterAPP(@), !.svc = EnterSVC(@)]

\* { type: 'interrupt' }
InterruptMessage == [type |-> "interrupt"]

\* sendMessage({ type: 'interrupt' }); stopPlayback(); clearQueue();
\* isStreamingRef.current = false
interrupt(c) ==
    [c EXCEPT !.svc = sendMessage(@, InterruptMessage),
              !.app.pb = clearQueue(stopPlayback(@)),
              !.app.isStreamingRef = FALSE]

\* The effect on [isPlaying, userSpeaking, ...], with the values of the
\* render.
interruptionEffect(c, isPlayingNow, userSpeakingNow) ==
    IF ~isPlayingNow
    THEN [c EXCEPT !.hasInterruptedRef = FALSE]
    ELSE IF isPlayingNow /\ userSpeakingNow /\ ~c.hasInterruptedRef
    THEN interrupt([c EXCEPT !.hasInterruptedRef = TRUE])
    ELSE c

\* A render of frontend-2's App and the effects whose dependencies changed
\* since the render before, in the order of the source: the isPlayingRef
\* effect of the playback hook, the message effect, the interruption
\* effect, the speaking override.
commitVAD(c) ==
    LET isPlayingNow == c.app.pb.isPlaying
        userSpeakingNow == c.userSpeaking
        stateNow == c.app.state
        isPlayingChanged == isPlayingNow # c.app.pb.isPlayingRef
        a1 == [c.app EXCEPT !.pb = syncIsPlayingRef(@),
                            !.renderedState = stateNow,
                            !.lastMessageChanged = FALSE]
        a2 == IF c.app.lastMessageChanged
              THEN messageEffect(a1, c.app.lastMessage)
              ELSE a1
        c2 == [c EXCEPT !.app = a2,
                        !.renderedUserSpeaking = userSpeakingNow]
        c3 == IF isPlayingChanged
                 \/ userSpeakingNow # c.renderedUserSpeaking
              THEN interruptionEffect(c2, isPlayingNow, userSpeakingNow)
              ELSE c2
    IN  IF isPlayingChanged \/ stateNow # c.app.renderedState
        THEN [c3 EXCEPT
                !.app = speakingOverrideEffect(@, isPlayingNow, stateNow)]
        ELSE c3

\* Some state of frontend-2's App was set since the last render.
RenderPendingVAD == RenderPending \/ userSpeaking # renderedUserSpeaking

CTLInit ==
    /\ userSpeaking = FALSE
    /\ renderedUserSpeaking = FALSE
    /\ hasInterruptedRef = FALSE

\* The detector reports the start of speech: setUserSpeaking(true).
SpeechStart ==
    /\ userSpeaking' = TRUE
    /\ SetPB(Enter(PB))
    /\ arrived' = arrived
    /\ Ran("speechStart")
    /\ UNCHANGED <<renderedUserSpeaking, hasInterruptedRef>>
    /\ UNCHANGED <<svcVars, ghostVars, appVars, startVars, capVars, codecVars, pollVars, pageVars>>

\* The detector reports the end of speech or a misfire:
\* setUserSpeaking(false).
SpeechEnd ==
    /\ userSpeaking' = FALSE
    /\ SetPB(Enter(PB))
    /\ arrived' = arrived
    /\ Ran("speechEnd")
    /\ UNCHANGED <<renderedUserSpeaking, hasInterruptedRef>>
    /\ UNCHANGED <<svcVars, ghostVars, appVars, startVars, capVars, codecVars, pollVars, pageVars>>

\* handleManualInterrupt, with the isPlaying of the last render.
handleManualInterrupt(c) ==
    IF ~c.app.pb.isPlayingRef THEN c ELSE interrupt(c)

\* The user presses the interrupt button.
ManualInterrupt ==
    /\ SetCTL(handleManualInterrupt(EnterCTL(CTL)))
    /\ arrived' = arrived
    /\ Ran("manualInterrupt")
    /\ turnStart' = turnStart
    /\ UNCHANGED <<ghostVars, startVars, capVars, codecVars, pollVars, pageVars>>

\* The controller while the server streams audio, stops it, and reports no
\* status, and the user may press the interrupt button.
APPNextStream ==
    \/ ServerAudioConfig
    \/ ServerAudioStopped
    \/ BinaryAudio
    \/ OnEnded
    \/ OnEndedStopped
    \/ ManualInterrupt
    \/ Commit

\* React renders frontend-2's App and runs the effects.
CommitVAD ==
    /\ RenderPendingVAD
    /\ SetCTL(commitVAD(EnterCTL(CTL)))
    /\ arrived' = arrived
    /\ Ran("commit")
    /\ turnStart' = turnStart
    /\ UNCHANGED <<ghostVars, startVars, capVars, codecVars, pollVars, pageVars>>

\* frontend-2's App on an open connection while the server streams audio
\* and the user speaks.
CTLNextInterrupt ==
    \/ UserConnect
    \/ TransportOpen
    \/ ServerAudioConfig
    \/ BinaryAudio
    \/ OnEnded
    \/ OnEndedStopped
    \/ SpeechStart
    \/ SpeechEnd
    \/ CommitVAD

(***************************************************************************)
(* AUTO-START  (App with useWebSocket)                                     *)
(***************************************************************************)

MaxSessions == 2

\* The controller with the connection state of useWebSocket and what the
\* auto-start uses.
AS ==
    [app |-> APP, svc |-> SVC, isConnected |-> isConnectedState,
     renderedIsConnected |-> renderedIsConnected,
     isConversationActive |-> isConversationActive,
     renderedIsConversationActive |-> renderedIsConversationActive,
     hasAutoStartedRef |-> hasAutoStartedRef,
     startsPending |-> startsPending]

SetAS(n) ==
    /\ SetAPP(n.app)
    /\ SetSVC(n.svc)
    /\ isConnectedState' = n.isConnected
    /\ renderedIsConnected' = n.renderedIsConnected
    /\ isConversationActive' = n.isConversationActive
    /\ renderedIsConversationActive' = n.renderedIsConversationActive
    /\ hasAutoStartedRef' = n.hasAutoStartedRef
    /\ startsPending' = n.startsPending

\* The state a handler of the controller starts from.
EnterAS(c) == [c EXCEPT !.app = EnterAPP(@), !.svc = EnterSVC(@)]

\* { type: 'start' }
StartMessage == [type |-> "start"]

\* The connection listener of useWebSocket: setIsConnected(connected) for
\* each notification of the service.
connectionListener(c) ==
    LET notified == c.svc.emitted.connection
    IN  IF notified = <<>> THEN c
        ELSE [c EXCEPT !.isConnected = notified[Len(notified)]]

\* startConversation up to its await: the isConnected of the render, then
\* startCapture() is pending.
startConversation(c, isConnectedNow) ==
    IF ~isConnectedNow
    THEN [c EXCEPT !.hasAutoStartedRef = FALSE]
    ELSE [c EXCEPT !.startsPending = @ + 1]

\* startConversation after its await. startCapture catches every error of
\* its own, so that its promise is always fulfilled and the catch of
\* startConversation is never taken.
startConversationResume(c) ==
    [c EXCEPT !.svc = sendMessage(@, StartMessage),
              !.isConversationActive = TRUE,
              !.startsPending = @ - 1]

\* The auto-start effect on [isConnected, state, isConversationActive],
\* with the values of the render.
autoStartEffect(c, isConnectedNow, stateNow, activeNow) ==
    IF isConnectedNow /\ ~c.hasAutoStartedRef /\ ~activeNow
       /\ stateNow = "ready"
    THEN startConversation([c EXCEPT !.hasAutoStartedRef = TRUE],
                           isConnectedNow)
    ELSE c

\* A render of App and the effects whose dependencies changed since the
\* render before, in the order of the source: the isPlayingRef effect of
\* the playback hook, the message effect, the auto-start effect, the
\* speaking override.
commitStart(c) ==
    LET isPlayingNow == c.app.pb.isPlaying
        stateNow == c.app.state
        isConnectedNow == c.isConnected
        activeNow == c.isConversationActive
        a1 == [c.app EXCEPT !.pb = syncIsPlayingRef(@),
                            !.renderedState = stateNow,
                            !.lastMessageChanged = FALSE]
        a2 == IF c.app.lastMessageChanged
              THEN messageEffect(a1, c.app.lastMessage)
              ELSE a1
        c2 == [c EXCEPT !.app = a2,
                        !.renderedIsConnected = isConnectedNow,
                        !.renderedIsConversationActive = activeNow]
        c3 == IF \/ isConnectedNow # c.renderedIsConnected
                 \/ stateNow # c.app.renderedState
                 \/ activeNow # c.renderedIsConversationActive
              THEN autoStartEffect(c2, isConnectedNow, stateNow, activeNow)
              ELSE c2
    IN  IF isPlayingNow # c.app.pb.isPlayingRef
           \/ stateNow # c.app.renderedState
        THEN [c3 EXCEPT
                !.app = speakingOverrideEffect(@, isPlayingNow, stateNow)]
        ELSE c3

\* Some state of App or of useWebSocket was set since the last render.
RenderPendingStart ==
    \/ RenderPending
    \/ isConnectedState # renderedIsConnected
    \/ isConversationActive # renderedIsConversationActive

ASInit ==
    /\ isConnectedState = FALSE
    /\ renderedIsConnected = FALSE
    /\ isConversationActive = FALSE
    /\ renderedIsConversationActive = FALSE
    /\ hasAutoStartedRef = FALSE
    /\ startsPending = 0
    /\ startsSent = 0

\* What a step of the controller leaves alone in the playback hook and in
\* the histories.
SameElsewhere ==
    /\ arrived' = arrived
    /\ turnStart' = turnStart
    /\ UNCHANGED <<ctlVars, capVars, codecVars, pollVars, pageVars,
                   userConnects, disconnects, wsLastOp, wsLastArg>>

\* The open event of a transport, heard by the connection listener.
HookOpen ==
    /\ opens < MaxSessions
    /\ \E t \in DOMAIN transports :
          /\ transports[t] = "CONNECTING"
          /\ SetAS(connectionListener(
                 [EnterAS(AS) EXCEPT !.svc =
                     onopen([@ EXCEPT !.transports[t] = "OPEN"])]))
    /\ opens' = opens + 1
    /\ closesSinceOpen' = 0
    /\ firedSinceOpen' = 0
    /\ Ran("open")
    /\ startsSent' = startsSent
    /\ SameElsewhere

\* The close event of an open transport, heard by the connection listener.
HookClose ==
    /\ \E t \in DOMAIN transports :
          /\ transports[t] = "OPEN"
          /\ SetAS(connectionListener(
                 [EnterAS(AS) EXCEPT !.svc =
                     onclose([@ EXCEPT !.transports[t] = "CLOSED"])]))
    /\ UNCHANGED <<opens, closesSinceOpen, firedSinceOpen>>
    /\ Ran("close")
    /\ startsSent' = startsSent
    /\ SameElsewhere

\* React renders App and runs the effects.
CommitStart ==
    /\ RenderPendingStart
    /\ SetAS(commitStart(EnterAS(AS)))
    /\ UNCHANGED <<opens, closesSinceOpen, firedSinceOpen>>
    /\ Ran("commit")
    /\ startsSent' = startsSent
    /\ SameElsewhere

\* The promise of startCapture is fulfilled and startConversation resumes.
CaptureSettles ==
    /\ startsPending > 0
    /\ SetAS(startConversationResume(EnterAS(AS)))
    /\ UNCHANGED <<opens, closesSinceOpen, firedSinceOpen>>
    /\ Ran("startConversation")
    /\ startsSent' = startsSent + Len(emitted'.sent)
    /\ SameElsewhere

\* App from its mount: the service connects, loses the connection and
\* reconnects while the server reports its status.
ASNext ==
    \/ UserConnect
    \/ HookOpen
    \/ HookClose
    \/ ReconnectTimerFires
    \/ ServerStatus
    \/ CommitStart
    \/ CaptureSettles

(***************************************************************************)
(* CAPTURE ENGINE  (useAudioCapture)                                       *)
(***************************************************************************)

MaxCaptures == 2

\* A ref whose current is null.
NoRef == 0

\* Nothing called yet by the handler that is running.
NoCaptureCalls ==
    [onError |-> 0, onAudioData |-> 0, thrown |-> 0, getUserMedia |-> <<>>,
     released |-> <<>>]

\* The state a handler of the hook starts from.
EnterCapture(c) == [c EXCEPT !.out = NoCaptureCalls]

\* The steps of startCapture after getUserMedia that may throw.
SetupSteps ==
    {"AudioContext", "createMediaStreamSource", "createScriptProcessor",
     "createGain"}

\* A script processor delivers audio blocks while its handler is set, it is
\* connected and its context is running.
Delivering(c) ==
    {p \in DOMAIN c.processors :
        /\ c.processors[p].connected
        /\ c.contexts[c.processors[p].context] = "running"}

\* stopCapture with the device tracks stopped before the context is closed.
stopCaptureTracksFirst(c) ==
    LET c1 == IF c.silentGainRef # NoRef
              THEN [c EXCEPT !.out.released = Append(@, "silentGain"),
                             !.silentGainRef = NoRef]
              ELSE c
        c2 == IF c1.processorRef # NoRef
              THEN [c1 EXCEPT !.out.released = Append(@, "processor"),
                              !.processors[c1.processorRef].connected = FALSE,
                              !.processorRef = NoRef]
              ELSE c1
        c3 == IF c2.sourceRef # NoRef
              THEN [c2 EXCEPT !.out.released = Append(@, "source"),
                              !.sourceRef = NoRef]
              ELSE c2
        c4 == IF c3.mediaStreamRef # NoRef
              THEN [c3 EXCEPT !.out.released = Append(@, "tracks"),
                              !.streams[c3.mediaStreamRef] = "stopped",
                              !.mediaStreamRef = NoRef]
              ELSE c3
        c5 == IF c4.audioContextRef # NoRef
              THEN [c4 EXCEPT !.out.released = Append(@, "audioContext"),
                              !.contexts[c4.audioContextRef] = "closed",
                              !.audioContextRef = NoRef]
              ELSE c4
    IN  [c5 EXCEPT !.isCapturing = FALSE, !.audioLevel = 0,
                   !.smoothedLevelRef = 0]

\* stopCapture: what each ref holds is released and the ref set to null, in
\* the order silent gain, processor, source, audio context, stream tracks.
stopCapture(c) ==
    LET c1 == IF c.silentGainRef # NoRef
              THEN [c EXCEPT !.out.released = Append(@, "silentGain"),
                             !.silentGainRef = NoRef]
              ELSE c
        c2 == IF c1.processorRef # NoRef
              THEN [c1 EXCEPT !.out.released = Append(@, "processor"),
                              !.processors[c1.processorRef].connected = FALSE,
                              !.processorRef = NoRef]
              ELSE c1
        c3 == IF c2.sourceRef # NoRef
              THEN [c2 EXCEPT !.out.released = Append(@, "source"),
                              !.sourceRef = NoRef]
              ELSE c2
        c4 == IF c3.audioContextRef # NoRef
              THEN [c3 EXCEPT !.out.released = Append(@, "audioContext"),
                              !.contexts[c3.audioContextRef] = "closed",
                              !.audioContextRef = NoRef]
              ELSE c3
        c5 == IF c4.mediaStreamRef # NoRef
              THEN [c4 EXCEPT !.out.released = Append(@, "tracks"),
                              !.streams[c4.mediaStreamRef] = "stopped",
                              !.mediaStreamRef = NoRef]
              ELSE c4
    IN  [c5 EXCEPT !.isCapturing = FALSE, !.audioLevel = 0,
                   !.smoothedLevelRef = 0]

\* The catch of startCapture: setError, onError, stopCapture.
startCaptureCatch(c) ==
    stopCapture([c EXCEPT !.error = "failed", !.out.onError = @ + 1,
                          !.pending = "none"])

\* startCapture up to its first await: without the facility the error is
\* reported and nothing else is done, with it the preferred request is made.
startCapture(c, supported) ==
    IF ~supported
    THEN [c EXCEPT !.error = "unsupported", !.out.onError = @ + 1]
    ELSE [c EXCEPT !.pending = "preferred",
                   !.out.getUserMedia = Append(@, "preferred")]

\* The catch around the preferred request: the basic request is made.
requestFallback(c) ==
    [c EXCEPT !.pending = "fallback",
              !.out.getUserMedia = Append(@, "fallback")]

\* startCapture from the stream that getUserMedia yielded to its end, where
\* the step `throws` throws ("none": no step does).
setup(c, throws) ==
    LET stream == Len(c.streams) + 1
        context == Len(c.contexts) + 1
        processor == Len(c.processors) + 1
        c1 == [c EXCEPT !.streams = Append(@, "live"),
                        !.mediaStreamRef = stream]
        c2 == [c1 EXCEPT !.contexts = Append(@, "running"),
                         !.audioContextRef = context]
        c3 == [c2 EXCEPT !.sourceRef = context]
        c4 == [c3 EXCEPT !.processors =
                             Append(@, [context |-> context,
                                        connected |-> FALSE]),
                         !.processorRef = processor]
        c5 == [c4 EXCEPT !.silentGainRef = context,
                         !.processors[processor].connected = TRUE]
    IN  CASE throws = "AudioContext" -> startCaptureCatch(c1)
          [] throws = "createMediaStreamSource" -> startCaptureCatch(c2)
          [] throws = "createScriptProcessor" -> startCaptureCatch(c3)
          [] throws = "createGain" -> startCaptureCatch(c4)
          [] OTHER -> [c5 EXCEPT !.isCapturing = TRUE, !.error = "null",
                                 !.pending = "none"]

onaudioprocessUngated(c, rms) ==
    LET smoothed == smoothAudioLevel(rms, c.smoothedLevelRef)
        c1 == [c EXCEPT !.smoothedLevelRef = smoothed,
                        !.audioLevel = smoothed]
    IN  IF c1.audioContextRef = NoRef
        THEN [c1 EXCEPT !.out.thrown = @ + 1]
        ELSE [c1 EXCEPT !.out.onAudioData = @ + 1]

\* processor.onaudioprocess: nothing while isCapturingRef is false; else the
\* level, then the frame for onAudioData. Reading the sample rate of
\* audioContextRef.current throws when the ref is null.
onaudioprocess(c, rms) ==
    IF ~c.isCapturingRef THEN c
    ELSE LET smoothed == smoothAudioLevel(rms, c.smoothedLevelRef)
             c1 == [c EXCEPT !.smoothedLevelRef = smoothed,
                             !.audioLevel = smoothed]
         IN  IF c1.audioContextRef = NoRef
             THEN [c1 EXCEPT !.out.thrown = @ + 1]
             ELSE [c1 EXCEPT !.out.onAudioData = @ + 1]

\* The effect that copies isCapturing into isCapturingRef after a render.
syncIsCapturingRef(c) == [c EXCEPT !.isCapturingRef = c.isCapturing]

CaptureInit ==
    /\ capture =
          [isCapturing |-> FALSE, isCapturingRef |-> FALSE, audioLevel |-> 0,
           smoothedLevelRef |-> 0, error |-> "null",
           mediaStreamRef |-> NoRef, audioContextRef |-> NoRef,
           sourceRef |-> NoRef, processorRef |-> NoRef,
           silentGainRef |-> NoRef, streams |-> <<>>, contexts |-> <<>>,
           processors |-> <<>>, pending |-> "none", out |-> NoCaptureCalls]
    /\ mediaDevices = "unknown"
    /\ captureOp = "init"
    /\ captureEnabled = FALSE

\* What a step of the hook leaves alone.
NotCapture ==
    UNCHANGED <<pbVars, svcVars, ghostVars, appVars, ctlVars, startVars,
                codecVars, pollVars, pageVars>>

OnlyCapture == mediaDevices' = mediaDevices /\ NotCapture

\* The application calls startCapture(), in a browser that has the
\* facility or in one that has not.
StartCapture ==
    /\ capture.pending = "none"
    /\ Len(capture.streams) < MaxCaptures
    /\ \E supported \in BOOLEAN :
          /\ mediaDevices \in
                {"unknown", IF supported THEN "present" ELSE "absent"}
          /\ mediaDevices' = IF supported THEN "present" ELSE "absent"
          /\ capture' = startCapture(EnterCapture(capture), supported)
          /\ captureOp' = IF supported THEN "startCapture" ELSE "startFailed"
    /\ captureEnabled' = captureEnabled
    /\ NotCapture

\* The pending request is granted and startCapture runs to its end.
RequestFulfilled ==
    /\ capture.pending # "none"
    /\ \E throws \in SetupSteps \cup {"none"} :
          /\ capture' = setup(EnterCapture(capture), throws)
          /\ captureOp' = IF throws = "none" THEN "started" ELSE "startFailed"
          /\ captureEnabled' = (throws = "none")
    /\ OnlyCapture

\* The preferred request is rejected.
PreferredRejected ==
    /\ capture.pending = "preferred"
    /\ capture' = requestFallback(EnterCapture(capture))
    /\ captureOp' = "fallback"
    /\ captureEnabled' = captureEnabled
    /\ OnlyCapture

\* The basic request is rejected too.
FallbackRejected ==
    /\ capture.pending = "fallback"
    /\ capture' = startCaptureCatch(EnterCapture(capture))
    /\ captureOp' = "startFailed"
    /\ captureEnabled' = FALSE
    /\ OnlyCapture

\* The application calls stopCapture().
StopCapture ==
    /\ capture' = stopCapture(EnterCapture(capture))
    /\ captureOp' = "stopCapture"
    /\ captureEnabled' = FALSE
    /\ OnlyCapture

\* A script processor delivers a block of samples.
AudioProcess ==
    /\ \E processor \in Delivering(capture), rms \in RmsLevels :
          capture' = onaudioprocess(EnterCapture(capture), rms)
    /\ captureOp' = "onaudioprocess"
    /\ captureEnabled' = captureEnabled
    /\ OnlyCapture

\* React renders the hook and runs the effect on [isCapturing].
CaptureCommit ==
    /\ capture.isCapturing # capture.isCapturingRef
    /\ capture' = syncIsCapturingRef(EnterCapture(capture))
    /\ captureOp' = "commit"
    /\ captureEnabled' = captureEnabled
    /\ OnlyCapture

CaptureNext ==
    \/ StartCapture
    \/ RequestFulfilled
    \/ PreferredRejected
    \/ FallbackRejected
    \/ StopCapture
    \/ AudioProcess
    \/ CaptureCommit

\* The three activities that have a stop operation, each on its own: the
\* playback hook, the service, or the capture hook, while the two others
\* are as constructed.
StopsNext ==
    \/ wsLastOp = "init" /\ captureOp = "init" /\ PBNext
    \/ lastOp = "init" /\ captureOp = "init" /\ SVCNext
    \/ lastOp = "init" /\ wsLastOp = "init" /\ CaptureNext

(***************************************************************************)
(* STARTING A CONVERSATION  (App with useWebSocket and useAudioCapture)    *)
(***************************************************************************)

\* React renders App and runs the effects; when the auto-start effect calls
\* startConversation on an open connection, startCapture runs up to its
\* first await, in a browser that has the facility or in one that has not.
CommitConversation ==
    /\ RenderPendingStart
    /\ capture.pending = "none"
    /\ LET c == commitStart(EnterAS(AS))
       IN  /\ SetAS(c)
           /\ IF c.startsPending > startsPending
              THEN \E supported \in BOOLEAN :
                      /\ mediaDevices \in
                            {"unknown",
                             IF supported THEN "present" ELSE "absent"}
                      /\ mediaDevices' =
                            IF supported THEN "present" ELSE "absent"
                      /\ capture' =
                            startCapture(EnterCapture(capture), supported)
                      /\ captureOp' =
                            IF supported THEN "startCapture"
                            ELSE "startFailed"
                      /\ captureEnabled' = captureEnabled
              ELSE UNCHANGED capVars
    /\ UNCHANGED <<opens, closesSinceOpen, firedSinceOpen>>
    /\ Ran("commit")
    /\ startsSent' = startsSent
    /\ arrived' = arrived
    /\ turnStart' = turnStart
    /\ UNCHANGED <<ctlVars, codecVars, pollVars, pageVars, userConnects,
                   disconnects, wsLastOp, wsLastArg>>

\* The promise of startCapture has been fulfilled, whether the capture was
\* started or not, and startConversation resumes after its await.
ConversationResumes ==
    /\ startsPending > 0
    /\ capture.pending = "none"
    /\ SetAS(startConversationResume(EnterAS(AS)))
    /\ UNCHANGED <<opens, closesSinceOpen, firedSinceOpen>>
    /\ Ran("startConversation")
    /\ startsSent' = startsSent + Len(emitted'.sent)
    /\ SameElsewhere

\* App from its mount to the start of the conversation, with the outcomes
\* of the microphone request.
ConversationNext ==
    \/ UserConnect
    \/ HookOpen
    \/ HookClose
    \/ ServerStatus
    \/ CommitConversation
    \/ RequestFulfilled
    \/ PreferredRejected
    \/ FallbackRejected
    \/ ConversationResumes

(***************************************************************************)
(* SAMPLE CONVERSION  (resampleAudio, float32ToInt16, int16ToFloat32)      *)
(***************************************************************************)

MaxLength == 3

MaxRate == 3

SampleScale == 2

\* A sample is the exact rational num / den, or NaN. The arithmetic of the
\* functions is carried out exactly.
Float(num, den) == [nan |-> FALSE, num |-> num, den |-> den]

NaN == [nan |-> TRUE, num |-> 0, den |-> 1]

\* The samples that a block is made of: the multiples of 1 / SampleScale
\* from below -1.0 to above 1.0, and NaN.
Floats ==
    {Float(num, SampleScale) : num \in -(SampleScale + 1)..(SampleScale + 1)}
        \cup {NaN}

\* The blocks of at most MaxLength samples.
Blocks == UNION {[1..length -> Floats] : length \in 0..MaxLength}

Rates == 1..MaxRate

\* Math.round of the positive rational num / den: halves are rounded up.
MathRound(num, den) == (2 * num + den) \div (2 * den)

\* Math.floor of the non-negative rational num / den.
MathFloor(num, den) == num \div den

\* array[index] of a Float32Array, indexed from 0: NaN is what arithmetic
\* makes of the undefined that an index outside the array yields.
At(array, index) ==
    IF index + 1 \in DOMAIN array THEN array[index + 1] ELSE NaN

\* a * (1 - fraction) + b * fraction, where fraction = numerator / outputRate
\* (a product with NaN is NaN, whatever the other factor).
Interpolate(a, b, numerator, rate) ==
    IF a.nan \/ b.nan THEN NaN
    ELSE Float(a.num * b.den * (rate - numerator)
                  + b.num * a.den * numerator,
               a.den * b.den * rate)

outputLengthTruncated(length, inRate, outRate) ==
    MathFloor(length * outRate, inRate) + 1

\* Math.round(input.length / ratio), where ratio = inputRate / outputRate
outputLength(length, inRate, outRate) ==
    MathRound(length * outRate, inRate)

\* One pass of the loop of resampleAudio: output[i].
resampleAt(array, i, inRate, outRate) ==
    LET index == MathFloor(i * inRate, outRate)
        numerator == (i * inRate) % outRate
    IN  IF index + 1 < Len(array)
        THEN Interpolate(At(array, index), At(array, index + 1),
                         numerator, outRate)
        ELSE At(array, index)

resampleAudioAlways(array, inRate, outRate) ==
    [n \in 1..outputLength(Len(array), inRate, outRate) |->
        resampleAt(array, n - 1, inRate, outRate)]

\* resampleAudio
resampleAudio(array, inRate, outRate) ==
    IF inRate = outRate THEN array
    ELSE [n \in 1..outputLength(Len(array), inRate, outRate) |->
             resampleAt(array, n - 1, inRate, outRate)]

\* The conversion of a number to an element of an Int16Array: NaN becomes
\* 0, any other number is truncated toward zero and wrapped to 16 bits.
ToInt16(x) ==
    IF x.nan THEN 0
    ELSE LET truncated == IF x.num < 0 THEN -((-x.num) \div x.den)
                          ELSE x.num \div x.den
         IN  ((truncated + 32768) % 65536) - 32768

\* Math.max(-1, Math.min(1, x)), NaN for NaN
Clamp(x) ==
    IF x.nan THEN x
    ELSE IF x.num > x.den THEN Float(1, 1)
    ELSE IF x.num < -x.den THEN Float(-1, 1)
    ELSE x

\* clamped < 0 ? clamped * 32768 : clamped * 32767
Scale(clamped) ==
    IF clamped.nan THEN clamped
    ELSE IF clamped.num < 0 THEN Float(clamped.num * 32768, clamped.den)
    ELSE Float(clamped.num * 32767, clamped.den)

float32ToInt16Unclamped(array) ==
    [n \in DOMAIN array |-> ToInt16(Scale(array[n]))]

\* float32ToInt16
float32ToInt16(array) ==
    [n \in DOMAIN array |-> ToInt16(Scale(Clamp(array[n])))]

\* int16ToFloat32
int16ToFloat32(array) ==
    [n \in DOMAIN array |->
        Float(array[n], IF array[n] < 0 THEN 32768 ELSE 32767)]

\* No block is being processed.
CodecIdle ==
    /\ input = <<>>
    /\ inputRate = 1
    /\ outputRate = 1
    /\ resampled = <<>>
    /\ pcmData = <<>>
    /\ decoded = <<>>
    /\ codecStage = "idle"

\* A block of samples and the two rates.
CodecInit ==
    /\ input \in Blocks
    /\ inputRate \in Rates
    /\ outputRate \in Rates
    /\ resampled = <<>>
    /\ pcmData = <<>>
    /\ decoded = <<>>
    /\ codecStage = "input"

NotCodec ==
    UNCHANGED <<pbVars, svcVars, ghostVars, appVars, ctlVars, startVars,
                capVars, pollVars, pageVars>>

\* onaudioprocess resamples the block.
Resample ==
    /\ codecStage = "input"
    /\ resampled' = resampleAudio(input, inputRate, outputRate)
    /\ codecStage' = "resampled"
    /\ UNCHANGED <<input, inputRate, outputRate, pcmData, decoded>>
    /\ NotCodec

\* onaudioprocess converts the resampled block to 16-bit PCM.
Encode ==
    /\ codecStage = "resampled"
    /\ pcmData' = float32ToInt16(resampled)
    /\ codecStage' = "encoded"
    /\ UNCHANGED <<input, inputRate, outputRate, resampled, decoded>>
    /\ NotCodec

\* The 16-bit PCM is converted back to floating point.
Decode ==
    /\ codecStage = "encoded"
    /\ decoded' = int16ToFloat32(pcmData)
    /\ codecStage' = "decoded"
    /\ UNCHANGED <<input, inputRate, outputRate, resampled, pcmData>>
    /\ NotCodec

CodecNext ==
    \/ Resample
    \/ Encode
    \/ Decode


\* ------------------------------------------------------------------
\* THE PAGE SCRIPT app.js: CAPTURE GATED BY THE SERVER'S STATUS
\* ------------------------------------------------------------------

\* How many audio contexts of the page may be running or being set up.
MaxContexts == 2

\* The statuses of a {type:"status"} message.
PageStatuses ==
    {"warming", "ready", "listening", "thinking", "speaking", "loading_tts"}

\* No status has been received yet.
NoStatus == "none"

\* The globals after DOMContentLoaded: initializeWebSocket() has created
\* the socket, nothing is recorded.
PageInit ==
    /\ page = [isRecording |-> FALSE, isConversationActive |-> FALSE,
               shouldProcessAudio |-> FALSE, readyState |-> "CONNECTING",
               reconnectTimer |-> FALSE, audioContext |-> FALSE,
               running |-> 0, starting |-> 0, out |-> <<>>]
    /\ pageOp = "load"
    /\ pageStatus = NoStatus

\* A handler of the page starts with nothing sent.
EnterPage(g) == [g EXCEPT !.out = <<>>]

\* ws.send(data) reaches the server on an open socket only.
wsSend(g, data) ==
    IF g.readyState = "OPEN" THEN [g EXCEPT !.out = Append(@, data)] ELSE g

\* case 'ready': a conversation that is active and recording asks for the
\* next turn; shouldProcessAudio is left as it is.
handleReady(g) ==
    IF g.isConversationActive /\ g.isRecording
    THEN wsSend(g, "start")
    ELSE g

\* handleStatusUpdate(status)
handleStatusUpdate(g, status) ==
    CASE status = "ready" -> handleReady(g)
      [] status = "listening" -> [g EXCEPT !.shouldProcessAudio = TRUE]
      [] status = "thinking" -> [g EXCEPT !.shouldProcessAudio = FALSE]
      [] status = "speaking" -> [g EXCEPT !.shouldProcessAudio = FALSE]
      [] status = "loading_tts" -> [g EXCEPT !.shouldProcessAudio = FALSE]
      [] OTHER -> g

\* processor.onaudioprocess: the block is resampled, converted and sent
\* when recording is on, the gate is open and the socket is open.
processorOnaudioprocess(g) ==
    IF ~g.isRecording \/ ~g.shouldProcessAudio
    THEN g
    ELSE wsSend(g, "audio")

\* startConversation() once the microphone has been granted: the graph is
\* built, the flags are set and start is sent. ws.send throws while the
\* socket is connecting, and the catch block marks the conversation
\* inactive.
startConversationGranted(g) ==
    LET h == [g EXCEPT !.starting = @ - 1, !.audioContext = TRUE,
                       !.running = @ + 1, !.isRecording = TRUE,
                       !.isConversationActive = TRUE,
                       !.shouldProcessAudio = FALSE]
    IN  IF h.readyState = "CONNECTING"
        THEN [h EXCEPT !.isConversationActive = FALSE]
        ELSE wsSend(h, "start")

\* startConversation() once both getUserMedia requests have been
\* rejected: the catch block.
startConversationDenied(g) ==
    [g EXCEPT !.starting = @ - 1, !.isConversationActive = FALSE]

\* endConversation(): the flags are cleared, the context the global names
\* is closed, and reset is sent on an open socket.
endConversation(g) ==
    LET h == [g EXCEPT !.isRecording = FALSE,
                       !.isConversationActive = FALSE,
                       !.shouldProcessAudio = FALSE,
                       !.running = IF g.audioContext THEN @ - 1 ELSE @,
                       !.audioContext = FALSE]
    IN  wsSend(h, "reset")

RanPage(g, op) ==
    /\ page' = g
    /\ pageOp' = op
    /\ UNCHANGED <<pbVars, svcVars, ghostVars, appVars, ctlVars, startVars,
                   capVars, codecVars, pollVars>>

\* ws.onopen
PageSocketOpens ==
    /\ page.readyState = "CONNECTING"
    /\ RanPage([EnterPage(page) EXCEPT !.readyState = "OPEN"], "open")
    /\ pageStatus' = pageStatus

\* ws.onclose: the socket is closed and a reconnection is scheduled.
PageSocketCloses ==
    /\ page.readyState \in {"CONNECTING", "OPEN"}
    /\ RanPage([EnterPage(page) EXCEPT !.readyState = "CLOSED",
                                      !.reconnectTimer = TRUE], "close")
    /\ pageStatus' = pageStatus

\* The timer of ws.onclose: initializeWebSocket() when the socket is
\* still closed.
PageReconnects ==
    /\ page.reconnectTimer
    /\ RanPage([EnterPage(page) EXCEPT
                   !.reconnectTimer = FALSE,
                   !.readyState = IF @ = "CLOSED" THEN "CONNECTING" ELSE @],
               "reconnect")
    /\ pageStatus' = pageStatus

\* ws.onmessage with a status message.
PageStatus ==
    /\ page.readyState = "OPEN"
    /\ \E status \in PageStatuses :
          /\ RanPage(handleStatusUpdate(EnterPage(page), status), "status")
          /\ pageStatus' = status

\* A click on the toggle while no conversation is active:
\* startConversation() up to its first await, in a browser that has
\* getUserMedia.
PageClickStart ==
    /\ ~page.isConversationActive
    /\ page.running + page.starting < MaxContexts
    /\ RanPage([EnterPage(page) EXCEPT !.starting = @ + 1], "click")
    /\ pageStatus' = pageStatus

\* A click on the toggle while a conversation is active.
PageClickEnd ==
    /\ page.isConversationActive
    /\ RanPage(endConversation(EnterPage(page)), "endConversation")
    /\ pageStatus' = pageStatus

\* getUserMedia is fulfilled and startConversation() runs to its end.
PageMicrophoneGranted ==
    /\ page.starting > 0
    /\ RanPage(startConversationGranted(EnterPage(page)), "startConversation")
    /\ pageStatus' = pageStatus

\* Both getUserMedia requests are rejected.
PageMicrophoneDenied ==
    /\ page.starting > 0
    /\ RanPage(startConversationDenied(EnterPage(page)), "denied")
    /\ pageStatus' = pageStatus

\* A processor of a running context delivers a block.
PageAudioProcess ==
    /\ page.running > 0
    /\ RanPage(processorOnaudioprocess(EnterPage(page)), "onaudioprocess")
    /\ pageStatus' = pageStatus

PageNext ==
    \/ PageSocketOpens
    \/ PageSocketCloses
    \/ PageReconnects
    \/ PageStatus
    \/ PageClickStart
    \/ PageClickEnd
    \/ PageMicrophoneGranted
    \/ PageMicrophoneDenied
    \/ PageAudioProcess


vars ==
    <<pbVars, svcVars, ghostVars, appVars, ctlVars, startVars, capVars,
      codecVars, pollVars, pageVars>>

Init ==
    PBInit /\ SVCInit /\ APPInit /\ CTLInit /\ ASInit /\ CaptureInit
        /\ CodecIdle /\ polls = <<>> /\ PageInit

\* Every component as constructed, and a block of samples to convert.
InitCodec ==
    PBInit /\ SVCInit /\ APPInit /\ CTLInit /\ ASInit /\ CaptureInit
        /\ CodecInit /\ polls = <<>> /\ PageInit

SpecPlayback == Init /\ [][PBNext]_vars

\* Every started render completes, every stopped source delivers its
\* ended event, and React renders after a state has been set.
SpecDrain ==
    /\ Init
    /\ [][PBNext]_vars
    /\ WF_vars(OnEnded)
    /\ WF_vars(OnEndedStopped)
    /\ WF_vars(SyncIsPlayingRef)

SpecService == Init /\ [][SVCNext]_vars

\* Pending timers fire, and a transport that is connecting or closing
\* reaches its close event.
SpecUnreachable ==
    /\ Init
    /\ [][SVCNextUnreachable]_vars
    /\ WF_vars(ReconnectTimerFires)
    /\ WF_vars(TransportError)

SpecSending == Init /\ [][SVCNextSending]_vars

SpecListeners == Init /\ [][SVCNextListeners]_vars

SpecApp == Init /\ [][APPNext]_vars

SpecStream == Init /\ [][APPNextStream]_vars

SpecInterrupt == Init /\ [][CTLNextInterrupt]_vars

\* Pending renders happen, pending promises are settled and pending
\* reconnect timers fire.
SpecAutoStart ==
    /\ Init
    /\ [][ASNext]_vars
    /\ WF_vars(CommitStart)
    /\ WF_vars(CaptureSettles)
    /\ WF_vars(ReconnectTimerFires)

SpecCapture == Init /\ [][CaptureNext]_vars

SpecStops == Init /\ [][StopsNext]_vars

\* Polling timers tick, pending reconnect timers fire, and every transport
\* reaches its close event.
SpecPolling ==
    /\ Init
    /\ [][SVCNextPolling]_vars
    /\ WF_vars(CheckInterval)
    /\ WF_vars(ReconnectTimerFires)
    /\ WF_vars(TransportError)

SpecConversation == Init /\ [][ConversationNext]_vars

\* The conversion of every block of samples at every pair of rates.
SpecCodec == InitCodec /\ [][CodecNext]_vars

SpecPage == Init /\ [][PageNext]_vars

(***************************************************************************)
(* PROPERTIES OF THE PLAYBACK ENGINE  (under SpecPlayback)                 *)
(***************************************************************************)

\* C1: at most one audio frame (buffer source) is rendering at a time, in
\* every reachable state.
C1_AtMostOneRendering == Cardinality(rendering) <= 1

\* The frame that the last handler started to render is `frame`.
StartedNow(before, after, frame) ==
    /\ Len(after) = Len(before) + 1
    /\ after[Len(after)] = [frame |-> frame.id, state |-> "playing"]

\* The renders started so far are in arrival order, no frame twice.
StartedInArrivalOrder ==
    \A i, j \in DOMAIN started : i < j => started[i] < started[j]

\* C2 as stated: frames start rendering in arrival order, each at most
\* once, and when a render completes naturally with a non-empty queue the
\* head of the queue starts rendering in that same step, the engine never
\* passing through idle.
C2_FifoAndGapless ==
    [][/\ StartedInArrivalOrder'
       /\ (lastOp' = "onended" /\ audioQueueRef # <<>>) =>
             /\ StartedNow(sources, sources', Head(audioQueueRef))
             /\ isPlaying'
             /\ calls'.onPlaybackEnd = 0]_vars

\* C2 amended: as C2, except that a head frame whose render fails (its
\* conversion throws) is removed from the queue without starting, the error
\* callback is invoked once and isPlaying becomes false.
C2_FifoAndGaplessUnlessRenderFails ==
    [][/\ StartedInArrivalOrder'
       /\ (lastOp' = "onended" /\ audioQueueRef # <<>>) =>
             /\ audioQueueRef' = Tail(audioQueueRef)
             /\ calls'.onPlaybackEnd = 0
             /\ IF Head(audioQueueRef).odd
                THEN /\ Len(sources') = Len(sources)
                     /\ calls'.onError = 1
                     /\ ~isPlaying'
                ELSE /\ StartedNow(sources, sources', Head(audioQueueRef))
                     /\ isPlaying'
                     /\ currentSourceRef' = Len(sources')]_vars

\* C2 witness: a completion step has just started the next frame, after an
\* earlier frame, and a further frame is still queued.
C2_Witness ==
    /\ lastOp = "onended"
    /\ queueBefore = 2
    /\ Len(audioQueueRef) = 1
    /\ Len(started) >= 2
    /\ Len(sources) \in rendering

\* C3: immediately after stopPlayback returns, no frame is rendering.
C3_NothingRendersAfterStop == lastOp = "stopPlayback" => rendering = {}

\* C4 as stated: stopPlayback leaves the queued frames pending.
C4_StopKeepsQueue ==
    [][lastOp' = "stopPlayback" => audioQueueRef' = audioQueueRef]_vars

\* C4 amended: stopPlayback itself empties the Playback Queue, as clearQueue
\* does: after either, no frame is pending.
C4_StopClearsQueue ==
    lastOp \in {"stopPlayback", "clearQueue"} => audioQueueRef = <<>>

\* C4 witness: stopPlayback has run on a non-empty queue.
C4_Witness == lastOp = "stopPlayback" /\ queueBefore > 0

C6_PlaybackEndOncePerIdleTransition ==
    [][calls'.onPlaybackEnd =
          IF rendering # {} /\ rendering' = {} THEN 1 ELSE 0]_vars

\* C7: whenever no frame is rendering, the reported output level is 0.
C7_LevelZeroWhenIdle == rendering = {} => audioLevel = 0

\* C7 witness: a render has just failed and nothing is rendering.
C7_Witness ==
    /\ rendering = {}
    /\ calls.onError = 1
    /\ Len(sources) > 0
    /\ ~isPlaying

(***************************************************************************)
(* PROPERTIES OF THE CONNECTION MANAGER                                    *)
(***************************************************************************)

\* How often x occurs in the sequence seq.
Count(seq, x) == Cardinality({i \in DOMAIN seq : seq[i] = x})

\* C8: no step creates a transport while one is connecting or open, and at
\* most one transport is connecting or open at any time (SpecService).
C8_AtMostOneLiveTransport ==
    [][/\ Cardinality(Live(transports')) <= 1
       /\ Live(transports) # {} => Len(transports') = Len(transports)]_vars

\* C8 witness: connect() has been called a second time while the first
\* transport was connecting or open, and there is still one transport.
C8_Witness ==
    /\ wsLastOp = "connect"
    /\ userConnects = 2
    /\ Len(transports) = 1
    /\ Cardinality(Live(transports)) = 1

\* C9: the delay set by the k-th consecutive unexpected close since the last
\* open (or since the start) is the k-th entry of the schedule, k = 1..5,
\* and the attempt counter counts the reconnect attempts (SpecService).
C9_DelayFollowsSchedule ==
    /\ (wsLastOp = "close" /\ emitted.timeouts # <<>>
          /\ closesSinceOpen \in DOMAIN reconnectTimeouts) =>
          emitted.timeouts = <<reconnectTimeouts[closesSinceOpen]>>
    /\ reconnectAttempts = firedSinceOpen

\* No timer is pending and no transport is connecting.
Quiet ==
    /\ PendingTimers(timers) = {}
    /\ \A t \in DOMAIN transports : transports[t] # "CONNECTING"

\* C10: a close that is handled as unexpected after 5 reconnect attempts
\* without an open sets no timer and notifies the terminal error once; and
\* with the backend unreachable the client eventually stops attempting to
\* connect (SpecUnreachable).
C10_GivesUpAfterMaxAttempts ==
    /\ [](/\ wsLastOp = "close"
          /\ ~isManualClose
          /\ firedSinceOpen >= maxReconnectAttempts
          => /\ emitted.timeouts = <<>>
             /\ Count(emitted.errors,
                      "Failed to reconnect after multiple attempts") = 1)
    /\ <>[]Quiet

\* C10 witness: the close of the transport of the fifth reconnect attempt
\* has been handled.
C10_Witness ==
    /\ wsLastOp = "close"
    /\ ~isManualClose
    /\ firedSinceOpen = maxReconnectAttempts
    /\ userConnects = 1
    /\ Quiet

\* C11: at most one reconnect timer is pending in every reachable state,
\* whatever the order of unexpected closes, connect() calls made during a
\* backoff wait and timer firings (SpecService).
C11_AtMostOneReconnectTimer == Cardinality(PendingTimers(timers)) <= 1

\* C12: whenever the transport of the service is open the attempt counter
\* is 0, so that the first delay after a period of being open is the first
\* entry of the schedule (SpecService).
C12_OpenMeansCounterZero ==
    /\ ReadyState(SVC) = "OPEN" => reconnectAttempts = 0
    /\ (wsLastOp = "close" /\ closesSinceOpen = 1 /\ opens > 0
          /\ emitted.timeouts # <<>>) =>
          emitted.timeouts = <<reconnectTimeouts[1]>>

\* disconnect() has been called and no connect() has created a transport
\* since: the close is marked manual and the handle is released.
Released == isManualClose /\ ws = NoTransport

\* C13: from disconnect() until the next connect() call no keepalive timer
\* and no reconnect timer is pending, the handle is released, no handler
\* (the late close event of the disconnected transport included) sets a
\* reconnect timer, and no transport is created (SpecService).
C13_DisconnectIsQuiescent ==
    [][/\ wsLastOp' = "disconnect" =>
             /\ Released'
             /\ ~pingInterval'
             /\ intervals' = 0
             /\ PendingTimers(timers') = {}
       /\ (Released /\ wsLastOp' # "connect") =>
             /\ Released'
             /\ intervals' = 0
             /\ PendingTimers(timers') = {}
             /\ emitted'.timeouts = <<>>
             /\ Len(transports') = Len(transports)]_vars

\* C14: a keepalive timer is outstanding exactly while the transport of the
\* service is open (one when open, none otherwise), and a keepalive tick
\* sends a ping only on an open transport, for every order of open and
\* close events (SpecSending).
C14_KeepaliveExactlyWhileOpen ==
    /\ intervals = IF isConnected(SVC) THEN 1 ELSE 0
    /\ pingInterval = isConnected(SVC)
    /\ (wsLastOp = "ping" /\ emitted.sent # <<>>) =>
          /\ isConnected(SVC)
          /\ emitted.sent =
                <<[on |-> ws, data |-> TextFrame("{\"type\":\"ping\"}")]>>

\* The frame that the last handler was asked to transmit.
RequestedFrame ==
    CASE wsLastOp = "sendMessage" -> TextFrame(JSONstringify(wsLastArg))
      [] wsLastOp = "sendAudioChunk" -> BinaryFrame(2 * wsLastArg.length)
      [] OTHER -> TextFrame(JSONstringify([type |-> "ping"]))

\* C15: sendMessage and sendAudioChunk called while the transport is not
\* open transmit nothing, notify nothing and leave the connection state as
\* it is; and whatever a step transmits is the one frame that this step was
\* asked to send, on the open transport, so that a frame dropped earlier is
\* never transmitted later, after a reconnection or otherwise (SpecSending).
C15_SendWhileNotOpenIsDropped ==
    [][/\ (wsLastOp' \in {"sendMessage", "sendAudioChunk"}
             /\ ~isConnected(SVC)) =>
             /\ emitted' = NoneEmitted
             /\ UNCHANGED <<ws, reconnectAttempts, reconnectTimer,
                            pingInterval, isManualClose, transports, timers,
                            intervals>>
       /\ emitted'.sent # <<>> =>
             /\ isConnected(SVC)
             /\ wsLastOp' \in {"sendMessage", "sendAudioChunk", "ping"}
             /\ emitted'.sent = <<[on |-> ws, data |-> RequestedFrame']>>]_vars

\* C15 witness: a control message has just been dropped, after the transport
\* had been open and was closed, with a reconnect timer pending.
C15_Witness ==
    /\ wsLastOp = "sendMessage"
    /\ ~isConnected(SVC)
    /\ emitted.sent = <<>>
    /\ opens > 0
    /\ PendingTimers(timers) # {}

(***************************************************************************)
(* PROPERTIES OF THE LISTENER REGISTRY  (under SpecListeners)              *)
(***************************************************************************)

\* The events of a kind that the last handler raised, in order.
Occurred(kind) ==
    CASE kind = "error" -> emitted.errors
      [] kind = "connection" -> emitted.connection
      [] kind = "message" ->
            IF wsLastOp = "message" /\ wsLastArg.string
                  /\ JSONparse(wsLastArg.text).ok
            THEN <<JSONparse(wsLastArg.text).value>>
            ELSE <<>>
      [] kind = "binary" ->
            IF wsLastOp = "message" /\ ~wsLastArg.string
            THEN <<wsLastArg>>
            ELSE <<>>

\* Each of the events was delivered once to each of the callbacks, and
\* nothing else was delivered.
DeliveredOnceToEach(callbacks, events, delivered) ==
    /\ Len(delivered) = Len(events) * Cardinality(callbacks)
    /\ \A i \in DOMAIN delivered : delivered[i].to \in callbacks
    /\ \A callback \in callbacks : \A i \in DOMAIN events :
          Count(delivered, [to |-> callback, event |-> events[i]])
              = Count(events, events[i])

\* The listener Sets of the kinds other than `kind` are left as they are.
OtherKindsUnchanged(kind) ==
    \A other \in EventKinds \ {kind} :
        Callbacks(SVC, other)' = Callbacks(SVC, other)

\* The last handler was the registration (or the unsubscribe function) of
\* this callback for this kind.
Called(op, kind, callback) ==
    /\ wsLastOp = op
    /\ wsLastArg = [kind |-> kind, callback |-> callback]

WellFormed(text) ==
    \E type \in MessageTypes : text = JSONstringify([type |-> type])

\* The last handler received a text frame that does not parse.
ParseFailed ==
    /\ wsLastOp = "message"
    /\ wsLastArg.string
    /\ ~WellFormed(wsLastArg.text)

\* C17: an inbound text frame that fails to parse notifies the error
\* listeners once, each of them once, and invokes no listener of another
\* kind; the transports, the reconnect counter, the reconnect timers and the
\* keepalive are left as they are (SpecListeners).
C17_ParseFailureIsReportedOnly ==
    [][ParseFailed' =>
          /\ emitted'.errors = <<"Failed to parse server message">>
          /\ DeliveredOnceToEach(errorCallbacks, emitted'.errors,
                                 emitted'.delivered.error)
          /\ emitted'.delivered.message = <<>>
          /\ emitted'.delivered.binary = <<>>
          /\ emitted'.delivered.connection = <<>>
          /\ emitted'.timeouts = <<>>
          /\ emitted'.sent = <<>>
          /\ UNCHANGED <<ws, transports, reconnectAttempts, reconnectTimer,
                         timers, pingInterval, intervals, isManualClose>>]_vars

\* C17 witness: a text frame that does not parse has arrived on the open
\* transport while a message listener and an error listener were
\* registered.
C17_Witness ==
    /\ ParseFailed
    /\ isConnected(SVC)
    /\ messageCallbacks # {}
    /\ emitted.delivered.error =
          <<[to |-> 1, event |-> "Failed to parse server message"]>>

(***************************************************************************)
(* PROPERTIES OF THE CONVERSATION CONTROLLER                               *)
(***************************************************************************)

\* The playback engine reports no rendering, now and in the last render.
Idle == ~isPlaying /\ ~isPlayingRef

\* C18, where the engine is and stays idle, so that no frame starts
\* rendering: a render that processes a status message sets the state to
\* the value mapped from the status, and no other step changes the state
\* (SpecApp).
C18_StatusSetsStateAndItStays ==
    [][(Idle /\ Idle') =>
          IF lastOp' = "commit" /\ ProcessesStatus
          THEN state' = mapBackendStateToCharacterState(lastMessage.data)
          ELSE state' = state]_vars

\* No render is pending: the effects have settled.
Settled == ~RenderPending

\* C19: whenever the engine reports rendering and the effects have settled
\* the state is speaking, whatever status messages were processed; and the
\* render in which the reported rendering ends while the state is speaking
\* sets the state to ready (SpecApp).
C19_SpeakingWhilePlaying ==
    /\ []((Settled /\ isPlaying) => state = "speaking")
    /\ [][(lastOp' = "commit" /\ isPlayingRef /\ ~isPlaying
             /\ state = "speaking") => state' = "ready"]_vars

\* C19 witness: the engine reports rendering, the effects have settled and
\* the state is speaking although the last message processed is the status
\* ready.
C19_Witness ==
    /\ Settled
    /\ isPlaying
    /\ rendering # {}
    /\ lastMessage = Message("status", "ready", "")
    /\ state = "speaking"

\* The frame is in the Playback Queue or has started to render.
InPipeline(id, queue, srcs) ==
    \/ \E i \in DOMAIN queue : queue[i].id = id
    \/ \E i \in DOMAIN srcs : srcs[i].frame = id

\* C20: a binary frame that arrives after begin_stream, while the turn is
\* open, is enqueued (or starts to render) when it is handled, and no render
\* of React removes a queued frame of the open turn from the queue other
\* than by starting it, for every order of frame arrivals and renders
\* (SpecStream).
C20_TurnFramesAreEnqueued ==
    [][/\ (lastOp' = "binaryAudio" /\ turnStart # NoTurn) =>
             InPipeline(arrived', audioQueueRef', sources')
       /\ (lastOp' = "commit" /\ turnStart # NoTurn) =>
             \A i \in DOMAIN audioQueueRef :
                 audioQueueRef[i].id > turnStart =>
                     InPipeline(audioQueueRef[i].id, audioQueueRef',
                                sources')]_vars

\* The render in progress processes an audio_stopped message.
ProcessesAudioStopped ==
    lastMessageChanged /\ lastMessage.type = "audio_stopped"

\* C21: after the render that processes audio_stopped no frame is
\* rendering, the Playback Queue is empty and the inbound stream is marked
\* inactive; and a binary frame handled while the stream is marked inactive
\* is neither enqueued nor rendered (SpecStream).
C21_AudioStoppedHaltsPlayback ==
    [][/\ (lastOp' = "commit" /\ ProcessesAudioStopped) =>
             /\ rendering' = {}
             /\ audioQueueRef' = <<>>
             /\ ~isStreamingRef'
       /\ (lastOp' = "binaryAudio" /\ ~isStreamingRef) =>
             /\ audioQueueRef' = audioQueueRef
             /\ sources' = sources]_vars

\* The render that just ran passed an interrupt message to the transport.
InterruptSent ==
    /\ lastOp = "commit"
    /\ \E i \in DOMAIN emitted.sent :
          emitted.sent[i].data = TextFrame(JSONstringify(InterruptMessage))

\* C22: an interrupt message is sent only by a render that sees playback
\* active and the flag not yet set; immediately after it is sent no frame is
\* rendering, playback is reported stopped, the Playback Queue is empty and
\* the inbound stream is marked inactive; and the flag is reset only by a
\* render that sees playback not active (SpecInterrupt).
C22_InterruptIsOneShot ==
    [][/\ InterruptSent' =>
             /\ isPlaying /\ ~hasInterruptedRef /\ hasInterruptedRef'
             /\ rendering' = {}
             /\ ~isPlaying'
             /\ audioQueueRef' = <<>>
             /\ ~isStreamingRef'
       /\ (hasInterruptedRef /\ ~hasInterruptedRef') => ~isPlaying]_vars

\* C23: no more than one start message is ever sent, and once the
\* auto-start has run to its end (the conversation is marked active) exactly
\* one start message has been sent (SpecAutoStart).
C23_AutoStartSendsOneStart ==
    /\ startsSent <= 1
    /\ isConversationActive => startsSent = 1

(***************************************************************************)
(* PROPERTIES OF THE CAPTURE ENGINE  (under SpecCapture)                   *)
(***************************************************************************)

\* C24: a block is passed to onAudioData only by a handler that found
\* isCapturingRef true, and only while startCapture has completed and
\* stopCapture has not returned since.
C24_EmitsOnlyWhileCapturing ==
    [][capture'.out.onAudioData > 0 =>
          capture.isCapturingRef /\ captureEnabled]_vars

\* A block was passed to onAudioData.
C24_Witness == capture.out.onAudioData > 0

\* The members of `released` that `order` names come in the order of `order`.
Respects(released, order) ==
    \A i, j \in DOMAIN released :
        \A m, n \in DOMAIN order :
            (i < j /\ released[i] = order[m] /\ released[j] = order[n])
                => m < n

\* C25 as stated: what a call of stopCapture releases, it releases in the
\* order processing node, source node, device tracks, audio context.
C25_TracksBeforeContext ==
    Respects(capture.out.released,
             <<"processor", "source", "tracks", "audioContext">>)

\* C25 amended: what a call of stopCapture releases, it releases in the
\* order silent gain node, processing node, source node, audio context,
\* device tracks, the reverse of the order in which startCapture acquired
\* them; the audio context is closed before the device tracks are stopped.
C25_ReverseAcquisitionOrder ==
    Respects(capture.out.released,
             <<"silentGain", "processor", "source", "audioContext",
               "tracks">>)

\* stopCapture released a running capture: all five resources.
C25_Witness ==
    captureOp = "stopCapture" /\ Len(capture.out.released) = 5

\* A ref of the hook holds a stream, a context or a node.
Held(c) ==
    \/ c.mediaStreamRef # NoRef
    \/ c.audioContextRef # NoRef
    \/ c.sourceRef # NoRef
    \/ c.processorRef # NoRef
    \/ c.silentGainRef # NoRef

\* A stream that the hook acquired is live, a context that it created is
\* running, or a processor that it connected is connected.
Acquired(c) ==
    \/ \E i \in DOMAIN c.streams : c.streams[i] = "live"
    \/ \E i \in DOMAIN c.contexts : c.contexts[i] = "running"
    \/ \E i \in DOMAIN c.processors : c.processors[i].connected

\* C27: a startCapture that fails reports the error through onError once,
\* and after it no ref of the hook holds a stream, a context or a node, no
\* stream, context or node that the hook acquired is still in use, and
\* isCapturing is false; the basic request is made only by the catch of a
\* rejected preferred request.
C27_FailedStartHoldsNothing ==
    [][/\ captureOp' = "startFailed" =>
             /\ capture'.out.onError = 1
             /\ ~Held(capture')
             /\ ~Acquired(capture')
             /\ ~capture'.isCapturing
       /\ (\E i \in DOMAIN capture'.out.getUserMedia :
              capture'.out.getUserMedia[i] = "fallback")
             => capture.pending = "preferred" /\ captureOp' = "fallback"]_vars

(***************************************************************************)
(* PROPERTIES OF THE STOP OPERATIONS  (under SpecStops)                    *)
(***************************************************************************)

\* C26: in every reachable state of the capture hook, of the playback hook
\* and of the service, a second call of stopCapture, stopPlayback or
\* disconnect right after the first leaves the state that the first call
\* left (what a call reports to its callers aside).
C26_StopsAreIdempotent ==
    /\ EnterCapture(stopCapture(EnterCapture(stopCapture(capture))))
          = EnterCapture(stopCapture(capture))
    /\ Enter(stopPlayback(Enter(stopPlayback(PB))))
          = Enter(stopPlayback(PB))
    /\ EnterSVC(disconnect(EnterSVC(disconnect(SVC))))
          = EnterSVC(disconnect(SVC))

\* disconnect was called on an open connection.
C26_Witness ==
    /\ wsLastOp = "disconnect"
    /\ opens > 0
    /\ isManualClose
    /\ ws = NoTransport

(***************************************************************************)
(* PROPERTIES OF THE SAMPLE CONVERSION                                     *)
(***************************************************************************)

\* Two samples are the same number, or both NaN.
SameSample(a, b) ==
    /\ a.nan = b.nan
    /\ ~a.nan => a.num * b.den = b.num * a.den

\* Two blocks have the same length and the same samples.
SameBlock(a, b) ==
    /\ Len(a) = Len(b)
    /\ \A n \in DOMAIN a : SameSample(a[n], b[n])

\* C28: whenever inputRate equals outputRate, resampleAudio returns its
\* input unchanged, with the same length and the same samples.
C28_EqualRatesReturnInput ==
    (codecStage # "input" /\ inputRate = outputRate)
        => SameBlock(resampled, input)

\* A block of several samples with a NaN in it, resampled at equal rates.
C28_Witness ==
    /\ codecStage = "resampled"
    /\ inputRate = outputRate
    /\ Len(input) = MaxLength
    /\ \E n \in DOMAIN input : input[n].nan
    /\ \E n \in DOMAIN input : ~input[n].nan /\ input[n].num # 0
    /\ SameBlock(resampled, input)

\* length is num / den rounded to the nearest integer, halves upwards.
IsRounded(length, num, den) ==
    /\ 2 * length * den <= 2 * num + den
    /\ 2 * num + den < 2 * (length + 1) * den

\* C29: for every input length L and every pair of positive rates,
\* resampleAudio produces round(L / (inputRate / outputRate)) samples
\* (round(L / 3) for a ratio of 3, as 48000 to 16000 is); and where the
\* rates differ, for every output index i the source index floor(i * ratio)
\* lies inside the input, and the output sample is the interpolation of
\* input[idx] against input[idx + 1] exactly when idx + 1 is inside the
\* input, and input[idx] otherwise.
C29_LengthAndIndices ==
    codecStage # "input" =>
        /\ IsRounded(Len(resampled), Len(input) * outputRate, inputRate)
        /\ inputRate = 3 * outputRate =>
               IsRounded(Len(resampled), Len(input), 3)
        /\ inputRate # outputRate =>
               \A i \in 0..(Len(resampled) - 1) :
                   LET idx == (i * inputRate) \div outputRate
                       numerator == i * inputRate - idx * outputRate
                   IN  /\ idx \in 0..(Len(input) - 1)
                       /\ idx + 1 \in 0..(Len(input) - 1) =>
                              SameSample(resampled[i + 1],
                                         Interpolate(input[idx + 1],
                                                     input[idx + 2],
                                                     numerator, outputRate))
                       /\ idx + 1 \notin 0..(Len(input) - 1) =>
                              SameSample(resampled[i + 1], input[idx + 1])

\* A block of three rising samples resampled down by the ratio 3 / 2: two
\* samples come out, the second interpolated halfway between the second
\* and the third sample of the input.
C29_Witness ==
    /\ codecStage = "resampled"
    /\ inputRate = 3
    /\ outputRate = 2
    /\ Len(input) = 3
    /\ Len(resampled) = 2
    /\ \A n \in DOMAIN input : input[n] = Float(n - 1, SampleScale)
    /\ SameSample(resampled[2], Float(3, 2 * SampleScale))

\* C30: float32ToInt16 never overflows: every input, including values
\* outside [-1.0, 1.0], maps into [-32768, 32767], values of -1.0 and below
\* to -32768 and values of 1.0 and above to 32767, the sign never changing;
\* and int16ToFloat32(float32ToInt16(x)) differs from x by at most one
\* quantization step for x in [-1.0, 1.0].
C30_NoOverflowAndRoundTrip ==
    /\ codecStage \in {"encoded", "decoded"} =>
           /\ Len(pcmData) = Len(resampled)
           /\ \A n \in DOMAIN pcmData :
                  LET x == resampled[n]
                  IN  /\ pcmData[n] \in -32768..32767
                      /\ ~x.nan =>
                             /\ x.num >= x.den => pcmData[n] = 32767
                             /\ x.num <= -x.den => pcmData[n] = -32768
                             /\ x.num >= 0 => pcmData[n] >= 0
                             /\ x.num <= 0 => pcmData[n] <= 0
    /\ codecStage = "decoded" =>
           /\ Len(decoded) = Len(resampled)
           /\ \A n \in DOMAIN decoded :
                  LET x == resampled[n]
                      y == decoded[n]
                      difference == y.num * x.den - x.num * y.den
                  IN  (~x.nan /\ x.num <= x.den /\ x.num >= -x.den) =>
                          /\ ~y.nan
                          /\ difference <= x.den
                          /\ -difference <= x.den

\* A block with a sample above 1.0, a sample of -1.0 and a sample inside
\* the range that the round trip does not reproduce exactly.
C30_Witness ==
    /\ codecStage = "decoded"
    /\ \E n \in DOMAIN resampled :
           /\ ~resampled[n].nan
           /\ resampled[n].num > resampled[n].den
           /\ pcmData[n] = 32767
    /\ \E n \in DOMAIN resampled :
           /\ ~resampled[n].nan
           /\ resampled[n].num = -resampled[n].den
           /\ pcmData[n] = -32768
    /\ \E n \in DOMAIN resampled :
           /\ ~resampled[n].nan
           /\ resampled[n].num < resampled[n].den
           /\ resampled[n].num > 0
           /\ ~SameSample(decoded[n], resampled[n])

(***************************************************************************)
(* FURTHER PROPERTIES OF THE PLAYBACK ENGINE  (under SpecPlayback)         *)
(***************************************************************************)

\* C31: when rendering a frame fails, the error callback is invoked once
\* and the playback engine is idle afterwards: isPlaying is false, there is
\* no current source and nothing is rendering.
C31_RenderFailureLeavesIdle ==
    calls.onError > 0 =>
        /\ calls.onError = 1
        /\ ~isPlaying
        /\ currentSourceRef = NoSource
        /\ rendering = {}

\* C32: while a frame is rendering, the level-update loop started with the
\* render is running: an animation frame is pending that will recompute
\* and smooth the output level.
C32_LevelLoopRunsWhileRendering ==
    (currentSourceRef # NoSource
        /\ sources[currentSourceRef].state = "playing")
        => animationFrameRef

\* C38: once frames stop arriving, the playback engine eventually becomes
\* idle with an empty queue and stays so: no frame stays queued for ever
\* while nothing is rendering, given that every started render completes
\* (SpecDrain).
C38_QueueDrains ==
    <>[](audioQueueRef = <<>> /\ rendering = {} /\ ~isPlaying)

(***************************************************************************)
(* FURTHER PROPERTIES OF THE CONNECTION MANAGER                            *)
(***************************************************************************)

\* A close event has just been handled as unexpected with reconnect
\* attempts remaining, disconnect() never having been called.
UnexpectedClose ==
    /\ wsLastOp = "close"
    /\ ~isManualClose
    /\ reconnectAttempts < maxReconnectAttempts
    /\ disconnects = 0

C34_NoControlMessageSkipped ==
    ~lastMessageChanged => (isStreamingRef <=> turnStart # NoTurn)

\* startConversation has just resumed after its await of startCapture.
Resumed == lastOp = "startConversation"

\* C35: startConversation sends the start message and marks the
\* conversation active only if the capture was started and the connection
\* is open when the capture setup finishes; if the capture fails, no start
\* is sent, the conversation is not marked active and the auto-start flag
\* is reset (SpecConversation).
C35_StartOnlyAfterCaptureStarted ==
    Resumed =>
        /\ (emitted.sent # <<>> \/ isConversationActive) =>
               (capture.isCapturing /\ isConnected(SVC))
        /\ ~capture.isCapturing =>
               /\ emitted.sent = <<>>
               /\ ~isConversationActive
               /\ ~hasAutoStartedRef

\* The promise p of a connect() call is pending and its timer is polling.
Waiting(p) == p \in DOMAIN polls /\ polls[p] = "pending"

\* C36: a connect() call issued while another attempt is in flight
\* eventually settles, also when disconnect() is called while the attempt
\* is still connecting: no promise of such a call stays pending, with its
\* polling timer running, for ever (SpecPolling).
C36_WaitingConnectSettles ==
    \A p \in 1..MaxUserConnects : Waiting(p) ~> ~Waiting(p)

\* audio_config with stop_stream
StopStreamMessage == Message("audio_config", "", "stop_stream")

\* The render in progress processes a stop_stream.
ProcessesStopStream ==
    lastMessageChanged /\ lastMessage = StopStreamMessage

\* C39: processing audio_config with stop_stream only marks the inbound
\* stream inactive, leaving the render in flight and the queued frames as
\* they are; and a frame that arrives after stop_stream, no other control
\* message having arrived since, is not enqueued (SpecStream).
C39_StopStreamOnlyMarksInactive ==
    [][/\ (ProcessesStopStream /\ lastOp' = "commit") =>
             /\ ~isStreamingRef'
             /\ UNCHANGED <<audioQueueRef, sources, currentSourceRef>>
       /\ (lastMessage = StopStreamMessage /\ lastOp' = "binaryAudio") =>
             UNCHANGED <<audioQueueRef, sources, currentSourceRef>>]_vars

(***************************************************************************)
(* FURTHER PROPERTIES OF THE CAPTURE ENGINE  (under SpecCapture)           *)
(***************************************************************************)

\* C37: the hook holds at most one microphone stream and one audio context
\* at a time: every stream that is live is the one that mediaStreamRef
\* holds and every context that is running is the one that audioContextRef
\* holds, so that once stopCapture has run nothing is live or running.
C37_OneStreamAndOneContext ==
    /\ \A i \in DOMAIN capture.streams :
           capture.streams[i] = "live" => capture.mediaStreamRef = i
    /\ \A i \in DOMAIN capture.contexts :
           capture.contexts[i] = "running" => capture.audioContextRef = i
    /\ captureOp = "stopCapture" => ~Acquired(capture)

(***************************************************************************)
(* PROPERTIES OF THE PAGE SCRIPT  (under SpecPage)                         *)
(***************************************************************************)

\* The block the processor has just delivered was sent to the server.
FrameTransmitted == pageOp = "onaudioprocess" /\ page.out # <<>>

\* The page transmits a block only while recording is on, the gate is
\* open and the socket is open.
TransmitsOnlyThroughGate ==
    FrameTransmitted =>
        page.isRecording /\ page.shouldProcessAudio
            /\ page.readyState = "OPEN"

\* C40: in the page script, a captured block is transmitted only inside a
\* listening window declared by the server: only while recording is on and
\* the most recent status received is listening, so that any other status
\* received after listening ends the transmission until the next
\* listening.
C40_TransmitsOnlyWhileListening ==
    FrameTransmitted => page.isRecording /\ pageStatus = "listening"

====
